---------------------------- MODULE Spec2Model ----------------------------
(***************************************************************************)
(* Evidence pipeline of llm-news-service: ingestion gate, deterministic    *)
(* tagger, triage / analysis state machine, over a relational store whose  *)
(* transactions commit atomically (core/database.py get_cursor).           *)
(*                                                                         *)
(* Text is a sequence of words.  Python's str.lower, substring search and  *)
(* \b-delimited regex search are modelled over a small vocabulary by the   *)
(* tables Lower and ProperSubstr.                                          *)
(***************************************************************************)
EXTENDS Integers, Sequences, FiniteSets, TLC

\* SQL NULL / Python None for strings
NULL == "NULL"
\* NULL in a timestamp column
NoTime == 0 - 1
\* a JSON object without a usable "confidence"
NoConfidence == 0 - 1

(* ------------------------------ bounds -------------------------------- *)
\* calls of ingest_article in one behaviour
MaxIngests == 2
\* words of a text handed to _detect_context
MaxTextLen == 4
\* direct calls of index_article in one behaviour
MaxTagCalls == 2
\* dimensions that hold a snapshot when the flattener is checked on its own
MaxFeatureDims == 2
\* characters of a name handed to resolve_entity
MaxNameLen == 3

(* ------------------------- program constants -------------------------- *)
\* INTERVAL '7 days' (article_processor.py:55,68), in days
RetentionDays == 7
\* confidence < 0.3 (article_processor.py:280), in hundredths
ConfidenceGate == 30
\* LIMIT 4 of the rolling profile's snapshot query (weekly_processor.py:206)
ProfileWindow == 4
\* search_entities(..., limit=5) (entity_resolver.py:20)
SearchLimit == 5
\* score >= 0.8 (entity_resolver.py:41), in hundredths
FuzzyThreshold == 80
\* text_lower[max(0, idx-100):idx+100] (article_processor.py:163), scaled
\* from 100 characters to words
WindowRadius == 2

(* ------------------------------ strings ------------------------------- *)
\* str.lower() on the vocabulary
Lower(w) ==
    CASE w = "Smith" -> "smith"
      [] w = "Smithson" -> "smithson"
      [] w = "Hamstring" -> "hamstring"
      [] w = "Brown" -> "brown"
      [] w = "Smithy" -> "smithy"
      [] w = "Browny" -> "browny"
      [] OTHER -> w

\* <<needle, word>>: needle is a proper substring of the lower-case word
ProperSubstr ==
    { <<"smith", "smithson">>, <<"smith", "smithy">>,
      <<"form", "performance">>,
      <<"select", "selection">>, <<"miss", "missed">> }

\* `needle in word` for lower-case strings
Sub(needle, word) == needle = word \/ <<needle, word>> \in ProperSubstr

\* f"{title} {body}" and f"{title}\n{body}": the words of both, title first
Concat(title, body) == title \o body

\* positions where the regex \bname\b (re.IGNORECASE) matches
WordMatches(name, text) ==
    { i \in 1..Len(text) : Lower(text[i]) = Lower(name) }

\* positions where re.escape(name) (re.IGNORECASE, no \b) or
\* str.find(phrase) on lowered text matches
SubstrMatches(needle, text) ==
    { i \in 1..Len(text) : Sub(Lower(needle), Lower(text[i])) }

Min(S) == CHOOSE x \in S : \A y \in S : x <= y

\* hashlib.sha256(...).hexdigest(): collision-free on the model's inputs
Sha256(s) == <<"sha256", s>>


(* --------------------------- identity catalog ------------------------- *)
\* rows of table entities, in listing order
Entities ==
    << [id |-> "e1", canonical_name |-> "Smith", entity_type |-> "player",
        domain |-> "afl"],
       [id |-> "e2", canonical_name |-> "Jones", entity_type |-> "player",
        domain |-> "afl"] >>

\* rows of entity_aliases joined to entities, in listing order
Aliases == << >>

\* rows of table dimensions with is_active = TRUE: code -> id
ActiveDimensions ==
    [c \in {"injury_status", "fitness_health", "selection_security",
            "role_change", "form_trajectory"} |->
        CASE c = "injury_status" -> "d1"
          [] c = "fitness_health" -> "d2"
          [] c = "selection_security" -> "d3"
          [] c = "role_change" -> "d4"
          [] c = "form_trajectory" -> "d5"]

(* ---------------------------- tagger tables --------------------------- *)
KeywordTags == {"injury", "return", "trade", "selection", "contract", "form"}

KEYWORD_TO_DIMENSION ==
    [t \in KeywordTags |->
        CASE t = "injury" -> "injury_status"
          [] t = "return" -> "fitness_health"
          [] t = "selection" -> "selection_security"
          [] t = "trade" -> "selection_security"
          [] t = "contract" -> "role_change"
          [] t = "form" -> "form_trajectory"]

InjuryPhrases ==
    {"injur", "hamstring", "calf", "shoulder", "knee", "ankle", "concuss",
     "ruled out", "sidelined", "miss", "setback"}
ReturnPhrases ==
    {"return", "back from", "recovered", "cleared to play", "set to return",
     "available"}
TradePhrases ==
    {"trade", "request", "move to", "join", "sign", "departure", "free agent"}
SelectionPhrases ==
    {"select", "named", "omit", "drop", "debut", "axed", "in for", "out for",
     "recalled"}
ContractPhrases == {"contract", "re-sign", "deal", "extension", "years"}
FormPhrases ==
    {"form", "scores", "points", "averaging", "performance", "disposal",
     "best on ground", "bog"}

Keywords ==
    InjuryPhrases \cup ReturnPhrases \cup TradePhrases \cup SelectionPhrases
        \cup ContractPhrases \cup FormPhrases

\* phrase -> normalized tag value
KEYWORD_MAP ==
    [k \in Keywords |->
        CASE k \in InjuryPhrases -> "injury"
          [] k \in ReturnPhrases -> "return"
          [] k \in TradePhrases -> "trade"
          [] k \in SelectionPhrases -> "selection"
          [] k \in ContractPhrases -> "contract"
          [] k \in FormPhrases -> "form"]

(* ------------------------------- tagger ------------------------------- *)
\* ArticleIndexer._load_patterns: <<name, entity id, canonical, type>> per
\* canonical name, then per alias not already seen
RECURSIVE CanonicalPatterns(_, _)
CanonicalPatterns(ents, seen) ==
    IF ents = << >> THEN << >>
    ELSE LET e == Head(ents)
             n == e.canonical_name
         IN  IF Lower(n) \in seen
             THEN CanonicalPatterns(Tail(ents), seen)
             ELSE << <<n, e.id, n, e.entity_type>> >>
                    \o CanonicalPatterns(Tail(ents), seen \cup {Lower(n)})

RECURSIVE AliasPatterns(_, _)
AliasPatterns(als, seen) ==
    IF als = << >> THEN << >>
    ELSE LET a == Head(als)
         IN  IF Lower(a.alias) \in seen
             THEN AliasPatterns(Tail(als), seen)
             ELSE << <<a.alias, a.id, a.canonical_name, a.entity_type>> >>
                    \o AliasPatterns(Tail(als), seen \cup {Lower(a.alias)})

LoadPatterns(ents, als) ==
    LET canon == CanonicalPatterns(ents, {})
        seen == { Lower(canon[i][1]) : i \in 1..Len(canon) }
    IN  canon \o AliasPatterns(als, seen)

\* the singleton's pattern cache once built
IndexerPatterns == LoadPatterns(Entities, Aliases)

\* index_article, entity part: one tag per (entity_id, entity_type, canonical)
EntityTags(title, body) ==
    LET text == Concat(title, body)
        pats == IndexerPatterns
        keys == { <<pats[i][2], pats[i][4], pats[i][3]>> : i \in 1..Len(pats) }
        hits(k) == { <<i, j>> \in (1..Len(pats)) \X (1..Len(text)) :
                        /\ <<pats[i][2], pats[i][4], pats[i][3]>> = k
                        /\ j \in WordMatches(pats[i][1], text) }
        first(k) == CHOOSE h \in hits(k) :
                        \A g \in hits(k) :
                            h[1] < g[1] \/ (h[1] = g[1] /\ h[2] <= g[2])
    IN  { [tag_type |-> k[2], tag_value |-> k[3], entity_id |-> k[1],
           dimension_id |-> NULL, match_text |-> text[first(k)[2]],
           match_count |-> Cardinality(hits(k)),
           is_headline |-> \E h \in hits(k) : h[2] <= Len(title)] :
          k \in { kk \in keys : hits(kk) # {} } }

\* index_article, keyword part: one tag per normalized keyword that occurs
KeywordTagsOf(title, body) ==
    LET text == Concat(title, body)
        hits(t) == { <<k, j>> \in Keywords \X (1..Len(text)) :
                        KEYWORD_MAP[k] = t /\ j \in SubstrMatches(k, text) }
        dim(t) == IF KEYWORD_TO_DIMENSION[t] \in DOMAIN ActiveDimensions
                  THEN ActiveDimensions[KEYWORD_TO_DIMENSION[t]] ELSE NULL
    IN  { [tag_type |-> "keyword", tag_value |-> t, entity_id |-> NULL,
           dimension_id |-> dim(t), match_text |-> NULL,
           match_count |-> Cardinality(hits(t)),
           is_headline |-> \E h \in hits(t) : h[2] <= Len(title)] :
          t \in { tt \in KeywordTags : hits(tt) # {} } }

\* the tag list index_article hands to _save_tags
ComputeTags(title, body) == EntityTags(title, body) \cup KeywordTagsOf(title, body)

(* ------------------------------- triage ------------------------------- *)
\* ArticleProcessor._load_player_patterns: <<name, entity id, entity_name,
\* whole-word?>>; canonical names are searched without word boundaries
RECURSIVE PlayerAliasPatterns(_, _)
PlayerAliasPatterns(als, seen) ==
    IF als = << >> THEN << >>
    ELSE LET a == Head(als)
             rest == PlayerAliasPatterns(Tail(als), seen)
         IN  IF a.entity_type = "player" /\ a.domain = "afl"
                  /\ Lower(a.alias) \notin seen
             THEN << <<a.alias, a.id, a.alias, TRUE>> >> \o rest
             ELSE rest

PlayerPatternsOf(ents, als) ==
    LET players == SelectSeq(ents,
                     LAMBDA e : e.domain = "afl" /\ e.entity_type = "player")
        canon == [i \in 1..Len(players) |->
                    <<players[i].canonical_name, players[i].id,
                      players[i].canonical_name, FALSE>>]
        seen == { Lower(players[i].canonical_name) : i \in 1..Len(players) }
    IN  canon \o PlayerAliasPatterns(als, seen)

\* the processor's pattern cache once built
PlayerPatterns == PlayerPatternsOf(Entities, Aliases)

\* the words of text[max(0, idx-100):idx+100] around the first mention
ContextWindow(text, idx) ==
    { i \in 1..Len(text) : idx - WindowRadius <= i /\ i < idx + WindowRadius }

AnyIn(phrases, text, window) ==
    \E k \in phrases : SubstrMatches(k, text) \cap window # {}

\* variant: the selection group tested before the injury group
DetectContextSelectionFirst(text, player_name) ==
    LET found == SubstrMatches(player_name, text)
        w == ContextWindow(text, Min(found))
    IN  IF found = {} THEN "general"
        ELSE IF AnyIn({"select", "named", "omit", "drop", "debut", "axed",
                       "in for", "out for"}, text, w)
        THEN "selection"
        ELSE IF AnyIn({"injur", "hamstring", "calf", "shoulder", "knee",
                       "ruled out", "sidelined", "miss"}, text, w)
        THEN "injury"
        ELSE IF AnyIn({"return", "back from", "recovered", "cleared to play",
                       "set to return"}, text, w)
        THEN "return"
        ELSE IF AnyIn({"trade", "deal", "request", "move to", "join", "sign"},
                      text, w)
        THEN "trade"
        ELSE IF AnyIn({"form", "scores", "points", "averaging", "performance",
                       "disposal"}, text, w)
        THEN "form"
        ELSE "general"

\* the keyword lists of _detect_context lines 165-174, by the label returned
ContextPhrases ==
    [g \in {"injury", "return", "trade", "selection", "form"} |->
        CASE g = "injury" -> {"injur", "hamstring", "calf", "shoulder", "knee",
                              "ruled out", "sidelined", "miss"}
          [] g = "return" -> {"return", "back from", "recovered",
                              "cleared to play", "set to return"}
          [] g = "trade" -> {"trade", "deal", "request", "move to", "join",
                             "sign"}
          [] g = "selection" -> {"select", "named", "omit", "drop", "debut",
                                 "axed", "in for", "out for"}
          [] g = "form" -> {"form", "scores", "points", "averaging",
                            "performance", "disposal"}]

\* ArticleProcessor._detect_context
DetectContext(text, player_name) ==
    LET found == SubstrMatches(player_name, text)
        w == ContextWindow(text, Min(found))
    IN  IF found = {} THEN "general"
        ELSE IF AnyIn(ContextPhrases["injury"], text, w) THEN "injury"
        ELSE IF AnyIn(ContextPhrases["return"], text, w) THEN "return"
        ELSE IF AnyIn(ContextPhrases["trade"], text, w) THEN "trade"
        ELSE IF AnyIn(ContextPhrases["selection"], text, w) THEN "selection"
        ELSE IF AnyIn(ContextPhrases["form"], text, w) THEN "form"
        ELSE "general"

\* context in ('injury', 'trade', 'selection', 'return')
NeedsAnalysis(context) == context \in {"injury", "trade", "selection", "return"}

\* _triage_article lines 107-129: the entities_found list, as a sequence
EntitiesFoundWith(pats, title, body) ==
    LET text == Concat(title, body)
        count(i) == IF pats[i][4]
                    THEN Cardinality(WordMatches(pats[i][1], text))
                    ELSE Cardinality(SubstrMatches(pats[i][1], text))
        hit == SelectSeq([i \in 1..Len(pats) |-> i], LAMBDA i : count(i) > 0)
    IN  [n \in 1..Len(hit) |->
            LET p == pats[hit[n]]
                ctx == DetectContext(text, p[3])
            IN  [entity_id |-> p[2], entity_name |-> p[3],
                 mention_count |-> count(hit[n]),
                 is_primary |-> SubstrMatches(p[3], title) # {},
                 context |-> ctx, needs_analysis |-> NeedsAnalysis(ctx)]]

EntitiesFound(title, body) == EntitiesFoundWith(PlayerPatterns, title, body)

(* ------------------------------- inputs ------------------------------- *)
Clients == {"c1", "c2"}
Workers == {"w1", "w2"}

\* <<url, published_at>> of the articles the scraper submits
Urls == { <<"u1", 1>>, <<"u2", 2>> }
Titles == { <<"news">> }
Bodies == { <<"Smith", "hamstring">>, <<"Smithson", "report">> }
BatchSizes == {1, 2}
\* the article "Smith ruled out with hamstring", published on day 1, and the
\* object the mocked oracle answers its analysis with (confidence 0.8)
ScenarioUrl == <<"u1", 1>>
ScenarioTitle == <<"Smith", "ruled out", "with", "hamstring">>
ScenarioBody == <<"report">>
ScenarioOracle == [error |-> FALSE, confidence |-> 80, event_type |-> "injury"]
\* the instants after 0 at which the clock is read: the day the first
\* articles reach their expiry, and the day after
TimePoints == {RetentionDays, RetentionDays + 1}

\* what ClaudeClient.query_json returns: an error dict, or the parsed JSON
\* object with its confidence in hundredths (NULL: key missing or null)
OracleResults ==
    { [error |-> TRUE, confidence |-> NoConfidence, event_type |-> NULL] }
      \cup { [error |-> FALSE, confidence |-> c, event_type |-> "injury"] :
                c \in {NoConfidence, 25, 30, 90} }

\* the words of the texts _detect_context is called with, and the texts
ContextWords ==
    {"Smith", "hamstring", "selection", "return", "trade", "performance",
     "report", "ankle"}
ContextTexts ==
    UNION { [1..n -> ContextWords] : n \in 1..MaxTextLen }

\* index_article and _triage_article are pure in the text: their results
\* for every text the scraper can submit
TagsOf ==
    [t \in Titles \cup {ScenarioTitle}, b \in Bodies \cup {ScenarioBody} |->
        ComputeTags(t, b)]
FoundOf ==
    [t \in Titles \cup {ScenarioTitle}, b \in Bodies \cup {ScenarioBody} |->
        EntitiesFound(t, b)]

(* -------------------------------- state ------------------------------- *)
VARIABLES
    now,                \* NOW() of the database server, in days
    articles,           \* committed rows of table articles
    article_tags,       \* committed rows of table article_tags
    article_entities,   \* committed rows of table article_entities
    extraction_events,  \* committed rows of table extraction_events
    nextArticleId,      \* sequence behind articles.id
    nextMentionId,      \* sequence behind article_entities.id
    ingests,            \* ingest_article calls started so far
    ing,                \* per client: position and locals of ingest_article
    tri,                \* position and locals of run_triage_batch
    ana,                \* per worker: position and locals of run_analysis_batch
    ctx,                \* a call of _detect_context: its text and its label
    rx,                 \* position and locals of reindex_all / index_article
    article_round,      \* column articles.round_id: rows [article_id, round_id]
    weekly_snapshots,   \* committed rows of table weekly_snapshots
    rolling_profiles,   \* committed rows of table rolling_profiles
    weekly_verdicts,    \* committed rows of table weekly_verdicts
    wk,                 \* position and locals of process_round
    ml_weekly_features, \* committed rows of table ml_weekly_features
    fg,                 \* position and locals of generate_for_round
    rs,                 \* a call of resolve_entity: its name and its result
    catalog,            \* tables entities and entity_aliases as they grow
    indexer,            \* the ArticleIndexer singleton's two caches
    tc,                 \* position and locals of each thread in index_article
    mn                  \* a triage of one article text: the text, the rows stored

\* the article pipeline: ingest, triage, analysis, clock
pipeline == <<now, articles, article_tags, article_entities, extraction_events,
              nextArticleId, nextMentionId, ingests, ing, tri, ana>>

\* everything the article pipeline's own steps leave alone
weekly == <<article_round, weekly_snapshots, rolling_profiles,
            weekly_verdicts, wk>>

\* the feature table and its generator
features == <<ml_weekly_features, fg>>
tagger == <<catalog, indexer, tc>>
more == <<mn>>
ext == <<features, rs, tagger, more>>
aux == <<ctx, rx, weekly, ext>>

vars == <<pipeline, aux>>

db == <<articles, article_tags, article_entities, extraction_events,
        nextArticleId, nextMentionId>>

IdleIngest ==
    [pc |-> "idle", url |-> NULL, title |-> << >>, body |-> << >>,
     published_at |-> NoTime, tx_now |-> NoTime, row |-> {},
     last |-> "none", result |-> {}]

IdleTriage ==
    [pc |-> "idle", batch |-> << >>]

IdleAnalysis ==
    [pc |-> "idle", pending |-> << >>, result |-> {}, tx_event |-> {}]

IdleContext == [text |-> << >>, label |-> "none"]

IdleReindex ==
    [pc |-> "idle", size |-> 0, batch |-> << >>, calls |-> 0, prev |-> {},
     retagged |-> FALSE, last |-> "none"]

InitPipeline ==
    /\ now = 0
    /\ articles = {}
    /\ article_tags = {}
    /\ article_entities = {}
    /\ extraction_events = {}
    /\ nextArticleId = 1
    /\ nextMentionId = 1
    /\ ingests = 0
    /\ ing = [p \in Clients |-> IdleIngest]
    /\ tri = IdleTriage
    /\ ana = [w \in Workers |-> IdleAnalysis]

IdleWeekly ==
    [pc |-> "idle", round_id |-> 0, ent |-> 0, step |-> 0, arts |-> {},
     fetched |-> {}, profiles |-> {}, done |-> {}, oracle |-> "none",
     last |-> "none"]

InitWeekly ==
    /\ article_round = {}
    /\ weekly_snapshots = {}
    /\ rolling_profiles = {}
    /\ weekly_verdicts = {}
    /\ wk = IdleWeekly

\* generate_for_round is not running
IdleFeatures ==
    [pc |-> "idle", round_id |-> 0, entity_ids |-> {}, ent |-> NULL,
     row |-> {}, last |-> "none"]

InitFeatures ==
    /\ ml_weekly_features = {}
    /\ fg = IdleFeatures

\* resolve_entity is not running
IdleResolve ==
    [pc |-> "idle", name |-> << >>, queried |-> FALSE, stage |-> "none",
     result |-> {}]

\* a request thread outside index_article; registered tells whether the
\* create request had returned when the thread's call began
IdleTag ==
    [pc |-> "idle", pending |-> << >>, used |-> {}, dims |-> {},
     registered |-> FALSE]

\* ArticleIndexer._patterns = None, _dimension_ids = None (a cache is the
\* empty set while it is None, and a set holding its value otherwise)
InitTagger ==
    /\ catalog = [entities |-> Entities, aliases |-> Aliases]
    /\ indexer = [patterns |-> {}, dimension_ids |-> {}]
    /\ tc = [t \in Clients |-> IdleTag]

\* no article text is being triaged
IdleMentions == [pc |-> "idle", body |-> << >>, rows |-> {}]

InitMore == mn = IdleMentions

InitExt == InitFeatures /\ rs = IdleResolve /\ InitTagger /\ InitMore

Init ==
    /\ InitPipeline
    /\ ctx = IdleContext
    /\ rx = IdleReindex
    /\ InitWeekly
    /\ InitExt

(* ------------------------ persistence primitives ---------------------- *)
\* the row of table articles with this id, as a set of 0 or 1 rows
ArticleById(id) == { a \in articles : a.id = id }

\* WHERE url_hash = %s AND expires_at > NOW()
LiveRows(rows, url_hash, t) ==
    { a \in rows : a.url_hash = url_hash /\ a.expires_at > t }

\* an uncommitted UPDATE of ingest_article holds the row's lock until the
\* surrounding get_cursor block ends
Locked(id) ==
    \E p \in Clients :
        ing[p].pc \in {"index_upd", "blocked"} /\ \E r \in ing[p].row : r.id = id

\* INSERT INTO articles ... RETURNING * (lines 65-71)
NewArticle(id, url, title, body, published_at, t) ==
    [id |-> id, url |-> url, url_hash |-> Sha256(url), title |-> title,
     body |-> body, content_hash |-> Sha256(body), published_at |-> published_at,
     triage_status |-> "pending", analysis_status |-> "pending",
     indexed_at |-> NoTime, triage_at |-> NoTime,
     scraped_at |-> t, expires_at |-> t + RetentionDays]

\* variant: the UPDATE without its triage_status column
UpdatedArticleKeepsTriage(row, body, t) ==
    [row EXCEPT !.body = body, !.content_hash = Sha256(body),
                !.analysis_status = "pending",
                !.indexed_at = NoTime,
                !.scraped_at = t, !.expires_at = t + RetentionDays]

\* UPDATE articles SET ... WHERE id = %s RETURNING * (lines 51-58)
UpdatedArticle(row, body, t) ==
    [row EXCEPT !.body = body, !.content_hash = Sha256(body),
                !.triage_status = "pending", !.analysis_status = "pending",
                !.indexed_at = NoTime,
                !.scraped_at = t, !.expires_at = t + RetentionDays]

\* variant: DO UPDATE SET match_count = article_tags.match_count + EXCLUDED's
UpsertTagsAccumulates(rows, article_id, tags) ==
    LET key(r) == <<r.article_id, r.tag_type, r.tag_value>>
        hit(r) == { t \in tags : <<article_id, t.tag_type, t.tag_value>> = key(r) }
        merged(r) ==
            LET t == CHOOSE x \in hit(r) : TRUE
            IN  [r EXCEPT !.match_count = @ + t.match_count,
                          !.is_headline = t.is_headline,
                          !.dimension_id = IF t.dimension_id # NULL
                                           THEN t.dimension_id ELSE @]
        fresh == { t \in tags :
                     ~ \E r \in rows : key(r) = <<article_id, t.tag_type, t.tag_value>> }
    IN  { IF hit(r) = {} THEN r ELSE merged(r) : r \in rows }
          \cup { [article_id |-> article_id, tag_type |-> t.tag_type,
                  tag_value |-> t.tag_value, entity_id |-> t.entity_id,
                  dimension_id |-> t.dimension_id, match_text |-> t.match_text,
                  match_count |-> t.match_count, is_headline |-> t.is_headline] :
                 t \in fresh }

\* INSERT INTO article_tags ... ON CONFLICT (article_id, tag_type, tag_value)
\* DO UPDATE, for every tag of the list (lines 253-273)
UpsertTags(rows, article_id, tags) ==
    LET key(r) == <<r.article_id, r.tag_type, r.tag_value>>
        hit(r) == { t \in tags : <<article_id, t.tag_type, t.tag_value>> = key(r) }
        merged(r) ==
            LET t == CHOOSE x \in hit(r) : TRUE
            IN  [r EXCEPT !.match_count = t.match_count,
                          !.is_headline = t.is_headline,
                          !.dimension_id = IF t.dimension_id # NULL
                                           THEN t.dimension_id ELSE @]
        fresh == { t \in tags :
                     ~ \E r \in rows : key(r) = <<article_id, t.tag_type, t.tag_value>> }
    IN  { IF hit(r) = {} THEN r ELSE merged(r) : r \in rows }
          \cup { [article_id |-> article_id, tag_type |-> t.tag_type,
                  tag_value |-> t.tag_value, entity_id |-> t.entity_id,
                  dimension_id |-> t.dimension_id, match_text |-> t.match_text,
                  match_count |-> t.match_count, is_headline |-> t.is_headline] :
                 t \in fresh }

\* UPDATE articles SET indexed_at = NOW() WHERE id = %s (lines 287-290)
StampIndexed(rows, id, t) ==
    { IF a.id = id THEN [a EXCEPT !.indexed_at = t] ELSE a : a \in rows }

(* ------------------------------ ingestion ----------------------------- *)
\* ingest_article returns: its transaction state is dropped, the path it
\* took and the value it returned stay with the caller
Returned(loc, path, value) ==
    [IdleIngest EXCEPT !.last = path, !.result = value]

\* ingest_article is entered (lines 22-35): the arguments are bound and
\* the transaction of line 37 opens
IngestCall(p, u, title, body) ==
    /\ ing[p].pc = "idle" /\ ingests < MaxIngests
    /\ ing' = [ing EXCEPT ![p] =
                  [IdleIngest EXCEPT !.pc = "select", !.url = u[1],
                      !.title = title, !.body = body, !.published_at = u[2]]]
    /\ ingests' = ingests + 1
    /\ UNCHANGED <<aux, now, db, tri, ana>>

\* variant: the stored hash compared with the hash of the title
SameContentWrongHash(existing, body) ==
    existing.content_hash = Sha256(existing.title) /\ body = body

\* content_hash == existing["content_hash"] (line 48)
SameContent(existing, body) == existing.content_hash = Sha256(body)

\* lines 39-49: the dedup SELECT finds a live row with the same content
\* hash and the call returns None
IngestDuplicate(p) ==
    /\ ing[p].pc = "select"
    /\ \E existing \in LiveRows(articles, Sha256(ing[p].url), now) :
          SameContent(existing, ing[p].body)
    /\ ing' = [ing EXCEPT ![p] = Returned(ing[p], "duplicate", {})]
    /\ UNCHANGED <<aux, now, db, ingests, tri, ana>>

\* lines 39-50: the SELECT finds a live row with another content hash
IngestFoundChanged(p) ==
    /\ ing[p].pc = "select"
    /\ \E existing \in LiveRows(articles, Sha256(ing[p].url), now) :
          /\ ~ SameContent(existing, ing[p].body)
          /\ ing' = [ing EXCEPT ![p].pc = "update", ![p].tx_now = now,
                        ![p].row = {[id |-> existing.id,
                                     content_hash |-> existing.content_hash]}]
    /\ UNCHANGED <<aux, now, db, ingests, tri, ana>>

\* lines 39-46: the SELECT finds no live row
IngestNotFound(p) ==
    /\ ing[p].pc = "select"
    /\ LiveRows(articles, Sha256(ing[p].url), now) = {}
    /\ ing' = [ing EXCEPT ![p].pc = "insert", ![p].tx_now = now]
    /\ UNCHANGED <<aux, now, db, ingests, tri, ana>>

\* lines 65-72: INSERT ... RETURNING *, committed when the with block ends
IngestInsert(p) ==
    /\ ing[p].pc = "insert"
    /\ LET row == NewArticle(nextArticleId, ing[p].url, ing[p].title,
                             ing[p].body, ing[p].published_at, ing[p].tx_now)
       IN  /\ articles' = articles \cup {row}
           /\ ing' = [ing EXCEPT ![p].pc = "index_new", ![p].row = {row}]
    /\ nextArticleId' = nextArticleId + 1
    /\ UNCHANGED <<aux, now, article_tags, article_entities, extraction_events,
                   nextMentionId, ingests, tri, ana>>

\* lines 75-78 with index_article and _save_tags: the tagger's own
\* transaction upserts the tags and stamps the row; no tags, no transaction
IngestIndexNew(p) ==
    /\ ing[p].pc = "index_new"
    /\ LET id == (CHOOSE r \in ing[p].row : TRUE).id
           tags == TagsOf[ing[p].title, ing[p].body]
       IN  IF tags = {}
           THEN /\ UNCHANGED <<articles, article_tags>>
                /\ ing' = [ing EXCEPT ![p] =
                        Returned(ing[p], "created", ing[p].row)]
           ELSE IF ArticleById(id) = {}
           THEN \* the row is gone: the tag insert violates its foreign key
                /\ UNCHANGED <<articles, article_tags>>
                /\ ing' = [ing EXCEPT ![p] = Returned(ing[p], "raised", {})]
           ELSE /\ ~ Locked(id)
                /\ article_tags' = UpsertTags(article_tags, id, tags)
                /\ articles' = StampIndexed(articles, id, now)
                /\ ing' = [ing EXCEPT ![p] =
                        Returned(ing[p], "created", ing[p].row)]
    /\ UNCHANGED <<aux, now, article_entities, extraction_events, nextArticleId,
                   nextMentionId, ingests, tri, ana>>

\* lines 51-59: the UPDATE waits for the row's lock, then rewrites the row
\* inside the still open transaction
IngestUpdate(p) ==
    /\ ing[p].pc = "update"
    /\ \E existing \in ing[p].row :
          /\ ~ Locked(existing.id)
          /\ \E old \in ArticleById(existing.id) :
                ing' = [ing EXCEPT ![p].pc = "index_upd",
                          ![p].row = {UpdatedArticle(old, ing[p].body, ing[p].tx_now)}]
    /\ UNCHANGED <<aux, now, db, ingests, tri, ana>>

\* lines 59-62 when the row was deleted meanwhile: fetchone() is None
IngestUpdateGone(p) ==
    /\ ing[p].pc = "update"
    /\ \E existing \in ing[p].row : ArticleById(existing.id) = {}
    /\ ing' = [ing EXCEPT ![p] = Returned(ing[p], "gone", {})]
    /\ UNCHANGED <<aux, now, db, ingests, tri, ana>>

\* lines 60-62, then the with block ends: index_article found no tag, so
\* _save_tags opened no transaction; the UPDATE commits and is returned
IngestUpdateCommit(p) ==
    /\ ing[p].pc = "index_upd"
    /\ TagsOf[ing[p].title, ing[p].body] = {}
    /\ \E row \in ing[p].row :
          articles' = { IF a.id = row.id THEN row ELSE a : a \in articles }
    /\ ing' = [ing EXCEPT ![p] = Returned(ing[p], "updated", ing[p].row)]
    /\ UNCHANGED <<aux, now, article_tags, article_entities, extraction_events,
                   nextArticleId, nextMentionId, ingests, tri, ana>>

\* lines 60-61 with _save_tags lines 252-290: the tagger's transaction
\* upserts its tags and then waits, in UPDATE articles, for the row lock
\* that the caller's own open transaction holds
IngestUpdateBlocked(p) ==
    /\ ing[p].pc = "index_upd"
    /\ TagsOf[ing[p].title, ing[p].body] # {}
    /\ ing' = [ing EXCEPT ![p].pc = "blocked"]
    /\ UNCHANGED <<aux, now, db, ingests, tri, ana>>

\* cleanup_expired: DELETE FROM articles WHERE expires_at < NOW(); the
\* rows of article_tags and article_entities go with their article
CleanupExpired ==
    LET expired == { a \in articles : a.expires_at < now }
        gone == { a.id : a \in expired }
    IN  /\ expired # {}
        /\ \A id \in gone : ~ Locked(id)
        /\ articles' = articles \ expired
        /\ article_tags' = { t \in article_tags : t.article_id \notin gone }
        /\ article_entities' = { m \in article_entities : m.article_id \notin gone }
        /\ article_round' = { x \in article_round : x.article_id \notin gone }
        /\ UNCHANGED <<ext, ctx, rx, weekly_snapshots, rolling_profiles,
                       weekly_verdicts, wk>>
        /\ UNCHANGED <<now, extraction_events, nextArticleId,
                       nextMentionId, ingests, ing, tri, ana>>

\* the server clock
Tick(t) ==
    /\ t > now
    /\ now' = t
    /\ UNCHANGED <<aux, db, ingests, ing, tri, ana>>

(* ----------------------------- batch SELECT --------------------------- *)
\* ORDER BY key LIMIT n over the rows S, key mapping each row to its sort
\* key: every sequence of min(n, |S|)
\* distinct rows in ascending key order that leaves no smaller key out
OrderedLimit(S, n, key) ==
    LET k == IF Cardinality(S) < n THEN Cardinality(S) ELSE n
    IN  { q \in [1..k -> S] :
            /\ \A i, j \in 1..k : i < j => q[i] # q[j] /\ key[q[i]] <= key[q[j]]
            /\ \A r \in S : (\A i \in 1..k : q[i] # r) =>
                    \A i \in 1..k : key[q[i]] <= key[r] }

(* ------------------------------- triage ------------------------------- *)
\* SELECT * FROM articles WHERE triage_status = 'pending'
\* ORDER BY scraped_at LIMIT %s (lines 85-91)
PendingTriage(rows) == { a \in rows : a.triage_status = "pending" }

\* variant: the upsert whose DO UPDATE also clears analysis_completed
UpsertMentionResetsCompleted(rows, id, article_id, ent) ==
    IF \E m \in rows : m.article_id = article_id /\ m.entity_name = ent.entity_name
    THEN { IF m.article_id = article_id /\ m.entity_name = ent.entity_name
           THEN [m EXCEPT !.mention_count = ent.mention_count,
                          !.needs_deep_analysis = ent.needs_analysis,
                          !.analysis_completed = FALSE]
           ELSE m : m \in rows }
    ELSE rows \cup
           { [id |-> id, article_id |-> article_id, entity_id |-> ent.entity_id,
              entity_name |-> ent.entity_name, entity_type |-> "player",
              mention_count |-> ent.mention_count,
              is_primary_subject |-> ent.is_primary,
              mention_context |-> ent.context,
              needs_deep_analysis |-> ent.needs_analysis,
              analysis_completed |-> FALSE] }

\* INSERT INTO article_entities ... ON CONFLICT (article_id, entity_name)
\* DO UPDATE SET mention_count, needs_deep_analysis (lines 134-144)
UpsertMention(rows, id, article_id, ent) ==
    IF \E m \in rows : m.article_id = article_id /\ m.entity_name = ent.entity_name
    THEN { IF m.article_id = article_id /\ m.entity_name = ent.entity_name
           THEN [m EXCEPT !.mention_count = ent.mention_count,
                          !.needs_deep_analysis = ent.needs_analysis]
           ELSE m : m \in rows }
    ELSE rows \cup
           { [id |-> id, article_id |-> article_id, entity_id |-> ent.entity_id,
              entity_name |-> ent.entity_name, entity_type |-> "player",
              mention_count |-> ent.mention_count,
              is_primary_subject |-> ent.is_primary,
              mention_context |-> ent.context,
              needs_deep_analysis |-> ent.needs_analysis,
              analysis_completed |-> FALSE] }

\* the loop of lines 133-144 over entities_found; ids come from the sequence
RECURSIVE UpsertMentions(_, _, _, _)
UpsertMentions(rows, id, article_id, ents) ==
    IF ents = << >> THEN rows
    ELSE LET next == UpsertMention(rows, id, article_id, Head(ents))
         IN  UpsertMentions(next, id + Cardinality(next) - Cardinality(rows),
                            article_id, Tail(ents))

\* variant: the triage UPDATE also completes the article's analysis status
MarkTriagedCompletesAnalysis(rows, id, t) ==
    { IF a.id = id
      THEN [a EXCEPT !.triage_status = "completed", !.triage_at = t,
                     !.analysis_status = "completed"]
      ELSE a : a \in rows }

\* UPDATE articles SET triage_status = 'completed', triage_at = NOW()
\* WHERE id = %s (lines 147-151)
MarkTriaged(rows, id, t) ==
    { IF a.id = id THEN [a EXCEPT !.triage_status = "completed", !.triage_at = t]
      ELSE a : a \in rows }

\* run_triage_batch lines 84-93: the SELECT fills the local list
TriageSelect(n) ==
    /\ tri.pc \in {"idle", "raised"}
    /\ PendingTriage(articles) # {}
    /\ \E q \in OrderedLimit(PendingTriage(articles), n,
                             [a \in PendingTriage(articles) |-> a.scraped_at]) :
          tri' = [tri EXCEPT !.pc = "loop",
                             !.batch = [i \in 1..Len(q) |->
                                 [id |-> q[i].id, title |-> q[i].title,
                                  body |-> q[i].body]]]
    /\ UNCHANGED <<aux, now, db, ingests, ing, ana>>

\* lines 94-96 with _triage_article: one article of the list is matched
\* and its transaction (mention upserts, status update) commits
TriageArticle ==
    /\ tri.pc = "loop"
    /\ LET art == Head(tri.batch)
           found == FoundOf[art.title, art.body]
           after == UpsertMentions(article_entities, nextMentionId, art.id, found)
       IN  /\ found = << >> \/ ArticleById(art.id) # {}
           /\ ~ Locked(art.id)
           /\ article_entities' = after
           /\ nextMentionId' = nextMentionId + Cardinality(after)
                                  - Cardinality(article_entities)
           /\ articles' = MarkTriaged(articles, art.id, now)
    /\ tri' = [tri EXCEPT !.batch = Tail(@),
                          !.pc = IF Len(tri.batch) = 1 THEN "idle" ELSE "loop"]
    /\ UNCHANGED <<aux, now, article_tags, extraction_events, nextArticleId,
                   ingests, ing, ana>>

\* _triage_article raises (a statement of its transaction fails, or the
\* article row is gone and the mention insert violates its foreign key):
\* get_cursor rolls back and re-raises (database.py lines 40-42), and
\* nothing in run_triage_batch catches it: the call ends with the rest of
\* its list untouched
TriageArticleRaises ==
    /\ tri.pc = "loop"
    /\ tri' = [tri EXCEPT !.pc = "raised"]
    /\ UNCHANGED <<aux, now, db, ingests, ing, ana>>

(* ------------------------------ analysis ------------------------------ *)
\* LEFT JOIN entities e ON ae.entity_id = e.id: e.canonical_name or NULL
CanonicalNameOf(entity_id) ==
    IF \E i \in 1..Len(Entities) : Entities[i].id = entity_id
    THEN Entities[CHOOSE i \in 1..Len(Entities) : Entities[i].id = entity_id].canonical_name
    ELSE NULL

\* the rows of lines 216-228 before ORDER BY and LIMIT
PendingAnalysis(mentions, arts) ==
    { [id |-> m.id, article_id |-> m.article_id, entity_id |-> m.entity_id,
       entity_name |-> m.entity_name, url |-> a.url,
       published_at |-> a.published_at,
       canonical_name |-> CanonicalNameOf(m.entity_id)] :
      <<m, a>> \in { x \in mentions \X arts :
                       /\ x[1].article_id = x[2].id
                       /\ x[1].needs_deep_analysis
                       /\ ~ x[1].analysis_completed } }

\* item['canonical_name'] or item['entity_name'] (line 241)
PlayerName(item) ==
    IF item.canonical_name # NULL THEN item.canonical_name ELSE item.entity_name

\* hashlib.sha256(f"{item['url']}:{player_name}") (line 295)
EventHash(item) == Sha256(<<item.url, PlayerName(item)>>)

\* result.get('confidence') or 0 (line 279)
Confidence(result) ==
    IF result.confidence = NoConfidence THEN 0 ELSE result.confidence

\* variant: the gate with a strict comparison
AcceptedAboveGate(result) ==
    ~ result.error /\ Confidence(result) > ConfidenceGate

\* lines 272-282 fall through: no error key and confidence not below 0.3
Accepted(result) == ~ result.error /\ ~ (Confidence(result) < ConfidenceGate)

\* the row of lines 286-307
NewEvent(item, result) ==
    [article_hash |-> EventHash(item), schema_type |-> result.event_type,
     source_url |-> item.url, confidence |-> result.confidence,
     article_id |-> item.article_id, article_entity_id |-> item.id]

\* variant: the INSERT without its ON CONFLICT clause
InsertEventNoConflictCheck(events, ev) == events \cup {ev}

\* ON CONFLICT (article_hash) DO NOTHING against the committed rows
InsertEvent(events, ev) ==
    IF \E e \in events : e.article_hash = ev.article_hash THEN events
    ELSE events \cup {ev}

\* _mark_analysis_complete (lines 312-318)
MarkAnalysisComplete(mentions, id) ==
    { IF m.id = id THEN [m EXCEPT !.analysis_completed = TRUE] ELSE m :
      m \in mentions }

\* after one item: next item, or return
NextItem(loc) ==
    [loc EXCEPT !.pending = Tail(@), !.result = {},
                !.tx_event = {},
                !.pc = IF Len(loc.pending) = 1 THEN "idle" ELSE "call"]

\* run_analysis_batch lines 215-228
AnalysisSelect(w, n) ==
    /\ ana[w].pc \in {"idle", "raised"}
    /\ PendingAnalysis(article_entities, articles) # {}
    /\ \E q \in OrderedLimit(PendingAnalysis(article_entities, articles), n,
                             [i \in PendingAnalysis(article_entities, articles)
                                  |-> 0 - i.published_at]) :
          ana' = [ana EXCEPT ![w] =
                     [IdleAnalysis EXCEPT !.pc = "call", !.pending = q]]
    /\ UNCHANGED <<aux, now, db, ingests, ing, tri>>

\* line 270: the blocking oracle call returns
AnalyzeOracle(w, r) ==
    /\ ana[w].pc = "call"
    /\ ana' = [ana EXCEPT ![w].pc = "decide", ![w].result = {r}]
    /\ UNCHANGED <<aux, now, db, ingests, ing, tri>>

\* variant: an oracle error or a low confidence leaves the mention as it is
AnalyzeRejectLeavesPending(w) ==
    /\ ana[w].pc = "decide"
    /\ \E r \in ana[w].result : ~ Accepted(r)
    /\ ana' = [ana EXCEPT ![w] = NextItem(ana[w])]
    /\ UNCHANGED <<aux, now, db, ingests, ing, tri>>

\* lines 272-282: error or low confidence, completed without an event
AnalyzeReject(w) ==
    /\ ana[w].pc = "decide"
    /\ \E r \in ana[w].result : ~ Accepted(r)
    /\ article_entities' = MarkAnalysisComplete(article_entities, Head(ana[w].pending).id)
    /\ ana' = [ana EXCEPT ![w] = NextItem(ana[w])]
    /\ UNCHANGED <<aux, now, articles, article_tags, extraction_events, nextArticleId,
                   nextMentionId, ingests, ing, tri>>

\* lines 285-310: the INSERT runs in the open transaction (waiting for a
\* concurrent uncommitted insert of the same key), then
\* _mark_analysis_complete commits in a transaction of its own
AnalyzeAccept(w) ==
    /\ ana[w].pc = "decide"
    /\ \E r \in ana[w].result :
          /\ Accepted(r)
          /\ LET item == Head(ana[w].pending)
                 ev == NewEvent(item, r)
             IN  /\ \A v \in Workers : \A e \in ana[v].tx_event :
                       e.article_hash # ev.article_hash
                 /\ article_entities' =
                       MarkAnalysisComplete(article_entities, item.id)
                 /\ ana' = [ana EXCEPT ![w].pc = "commit_event",
                              ![w].tx_event = InsertEvent(extraction_events, ev)
                                                \ extraction_events]
    /\ UNCHANGED <<aux, now, articles, article_tags, extraction_events, nextArticleId,
                   nextMentionId, ingests, ing, tri>>

\* the with block of line 285 ends: the event insert commits
AnalyzeCommit(w) ==
    /\ ana[w].pc = "commit_event"
    /\ extraction_events' = extraction_events \cup ana[w].tx_event
    /\ ana' = [ana EXCEPT ![w] = NextItem(ana[w])]
    /\ UNCHANGED <<aux, now, articles, article_tags, article_entities, nextArticleId,
                   nextMentionId, ingests, ing, tri>>

\* the commit of line 39 fails (or the process dies before it): the event
\* insert is rolled back and the exception leaves run_analysis_batch
AnalyzeCommitRaises(w) ==
    /\ ana[w].pc = "commit_event"
    /\ ana' = [ana EXCEPT ![w].pc = "raised", ![w].tx_event = {}]
    /\ UNCHANGED <<aux, now, db, ingests, ing, tri>>

(* --------------------------- specification ---------------------------- *)
\* the steps of the ingest callers P while no row is deleted under them
IngestSteps(P) ==
    \/ \E p \in P, u \in Urls, t \in Titles, b \in Bodies : IngestCall(p, u, t, b)
    \/ \E p \in P :
          \/ IngestDuplicate(p)
          \/ IngestFoundChanged(p)
          \/ IngestNotFound(p)
          \/ IngestInsert(p)
          \/ IngestIndexNew(p)
          \/ IngestUpdate(p)
          \/ IngestUpdateCommit(p)
          \/ IngestUpdateBlocked(p)

\* all steps of the ingest callers P
IngestNext(P) == IngestSteps(P) \/ \E p \in P : IngestUpdateGone(p)

\* the steps of the daemon's triage job
TriageNext ==
    \/ \E n \in BatchSizes : TriageSelect(n)
    \/ TriageArticle
    \/ TriageArticleRaises

\* the steps of the analysis jobs W
AnalysisNext(W) ==
    \/ \E w \in W, n \in BatchSizes : AnalysisSelect(w, n)
    \/ \E w \in W, r \in OracleResults : AnalyzeOracle(w, r)
    \/ \E w \in W :
          \/ AnalyzeReject(w)
          \/ AnalyzeAccept(w)
          \/ AnalyzeCommit(w)
          \/ AnalyzeCommitRaises(w)

EnvNext == CleanupExpired \/ \E t \in TimePoints : Tick(t)

\* one API caller, the daemon's triage and analysis jobs, cleanup
Next == IngestNext({"c1"}) \/ TriageNext \/ AnalysisNext({"w1"}) \/ EnvNext

Spec == Init /\ [][Next]_vars

\* overlapping ingest calls of two API threads
NextIngest == IngestNext(Clients) \/ EnvNext

SpecIngest == Init /\ [][NextIngest]_vars

\* the daemon's analysis job overlapping a manually triggered one, within
\* the retention window of the articles (the clock stands still)
NextWorkers == IngestSteps({"c1"}) \/ TriageNext \/ AnalysisNext(Workers)

SpecWorkers == Init /\ [][NextWorkers]_vars

(* ------------------------------ tagging ------------------------------- *)
\* index_article(article_id, title, body) with _save_tags, called on a
\* stored article with its text: no tags, no transaction; otherwise one
\* transaction upserts the tags and stamps the row
IndexArticle(id) ==
    /\ rx.pc = "idle"
    /\ rx.calls < MaxTagCalls
    /\ \E a \in ArticleById(id) :
          LET tags == TagsOf[a.title, a.body]
              call == [id |-> id, title |-> a.title, body |-> a.body]
          IN  /\ IF tags = {}
                 THEN UNCHANGED <<articles, article_tags>>
                 ELSE /\ ~ Locked(id)
                      /\ article_tags' = UpsertTags(article_tags, id, tags)
                      /\ articles' = StampIndexed(articles, id, now)
              /\ rx' = [rx EXCEPT !.calls = @ + 1, !.prev = {call},
                                  !.retagged = (rx.prev = {call}),
                                  !.last = "tagged"]
    /\ UNCHANGED <<now, article_entities, extraction_events, nextArticleId,
                   nextMentionId, ingests, ing, tri, ana, ctx, weekly, ext>>

\* reindex_all(batch_size) is called (lines 294-298)
ReindexCall(n) ==
    /\ rx.pc = "idle"
    /\ rx' = [rx EXCEPT !.pc = "select", !.size = n, !.last = "none"]
    /\ UNCHANGED <<pipeline, ctx, weekly, ext>>

\* SELECT id, title, body FROM articles WHERE indexed_at IS NULL
\* ORDER BY scraped_at DESC LIMIT %s (lines 299-310)
Unindexed(rows) == { a \in rows : a.indexed_at = NoTime }

ReindexSelect ==
    /\ rx.pc = "select"
    /\ \E q \in OrderedLimit(Unindexed(articles), rx.size,
                             [a \in Unindexed(articles) |-> 0 - a.scraped_at]) :
          rx' = IF q = << >>
                THEN [rx EXCEPT !.pc = "idle", !.size = 0, !.last = "returned"]
                ELSE [rx EXCEPT !.pc = "loop",
                         !.batch = [i \in 1..Len(q) |->
                                       [id |-> q[i].id, title |-> q[i].title,
                                        body |-> q[i].body]]]
    /\ UNCHANGED <<pipeline, ctx, weekly, ext>>

\* lines 312-317: index_article on the next article of the batch; after
\* the last one the while loop selects again
ReindexOne ==
    /\ rx.pc = "loop"
    /\ LET item == Head(rx.batch)
           tags == TagsOf[item.title, item.body]
           next == [rx EXCEPT !.batch = Tail(@),
                       !.pc = IF Len(rx.batch) = 1 THEN "select" ELSE "loop"]
       IN  IF tags = {}
           THEN /\ UNCHANGED <<articles, article_tags>>
                /\ rx' = next
           ELSE IF ArticleById(item.id) = {}
           THEN \* the tag insert violates its foreign key: the call raises
                /\ UNCHANGED <<articles, article_tags>>
                /\ rx' = [rx EXCEPT !.pc = "idle", !.size = 0,
                                    !.batch = << >>, !.last = "raised"]
           ELSE /\ ~ Locked(item.id)
                /\ article_tags' = UpsertTags(article_tags, item.id, tags)
                /\ articles' = StampIndexed(articles, item.id, now)
                /\ rx' = next
    /\ UNCHANGED <<now, article_entities, extraction_events, nextArticleId,
                   nextMentionId, ingests, ing, tri, ana, ctx, weekly, ext>>

\* _save_tags lines 252-290 for a new article when one INSERT fails: the
\* except clause logs it, the transaction is aborted, the remaining
\* statements fail, the UPDATE raises, get_cursor rolls back and re-raises
\* out of ingest_article (line 76); the article row was committed before
IngestIndexNewTagFails(p) ==
    /\ ing[p].pc = "index_new"
    /\ TagsOf[ing[p].title, ing[p].body] # {}
    /\ ing' = [ing EXCEPT ![p] = Returned(ing[p], "tag_failed", {})]
    /\ UNCHANGED <<aux, now, db, ingests, tri, ana>>

\* lines 60-61 when index_article raises: the exception leaves the with
\* block of line 37, get_cursor rolls the UPDATE back and re-raises
IngestUpdateTagFails(p) ==
    /\ ing[p].pc = "index_upd"
    /\ ing' = [ing EXCEPT ![p] = Returned(ing[p], "tag_failed", {})]
    /\ UNCHANGED <<aux, now, db, ingests, tri, ana>>

ReindexNext == ReindexSelect \/ ReindexOne

\* one API caller, tagging calls, reindex_all, failing tag inserts
NextTagger ==
    \/ IngestSteps({"c1"})
    \/ IngestIndexNewTagFails("c1")
    \/ IngestUpdateTagFails("c1")
    \/ \E id \in 1..MaxIngests : IndexArticle(id)
    \/ \E n \in BatchSizes : ReindexCall(n)
    \/ ReindexNext

SpecTagger == Init /\ [][NextTagger]_vars

\* reindex_all keeps running once called
SpecReindexFair == Init /\ [][NextTagger]_vars /\ WF_vars(ReindexNext)

(* ------------------------- weekly aggregation ------------------------- *)
\* rows of table rounds: four past rounds, then the round whose date range
\* holds the published_at days of the submitted articles and the round
\* after it
Rounds ==
    { [id |-> n, round_number |-> n,
       start_date |-> IF n <= ProfileWindow THEN n - 10
                      ELSE 2 * (n - ProfileWindow) - 1,
       end_date |-> IF n <= ProfileWindow THEN n - 10
                    ELSE 2 * (n - ProfileWindow)] :
      n \in 1..(ProfileWindow + 2) }

CurrentRounds == { ProfileWindow + 1, ProfileWindow + 2 }

\* SELECT id, canonical_name FROM entities WHERE entity_type = 'player'
WeeklyPlayers == SelectSeq(Entities, LAMBDA e : e.entity_type = "player")

\* SELECT id, code, prompt_guidance FROM dimensions WHERE is_active = TRUE
WeeklyDimensions ==
    << ActiveDimensions["injury_status"], ActiveDimensions["fitness_health"],
       ActiveDimensions["selection_security"], ActiveDimensions["role_change"],
       ActiveDimensions["form_trajectory"] >>

\* what query_json returns to a weekly stage: an error dict or the object
WeeklyOracleResults ==
    { [error |-> TRUE, sentiment |-> NULL, signal_strength |-> NULL,
       trend |-> NULL, captain_rating |-> NoConfidence,
       risk_level |-> NULL, trade_signal |-> NULL,
       verdict_features |-> << >>, confidence |-> NoConfidence],
      [error |-> FALSE, sentiment |-> "negative", signal_strength |-> "strong",
       trend |-> "declining", captain_rating |-> 40,
       risk_level |-> "high", trade_signal |-> "sell",
       verdict_features |->
           [k \in {"injury_risk", "form_score", "selection_certainty",
                   "upside_potential"} |-> 70],
       confidence |-> 80] }

\* snapshots left by the processing of the past rounds, whose articles
\* have expired since
PastSnapshots ==
    { [entity_id |-> e, dimension_id |-> "d1", round_id |-> n,
       sentiment |-> "negative", signal_strength |-> "strong",
       confidence |-> 80, article_count |-> 1, source_article_ids |-> {0},
       generated_at |-> 0] : e \in {"e1", "e2"}, n \in 1..ProfileWindow }

\* assign_articles_to_round: UPDATE articles SET round_id = %s WHERE
\* round_id IS NULL AND published_at IS NOT NULL AND published_at::date
\* BETWEEN start_date AND end_date
AssignArticles(r) ==
    /\ \E rd \in Rounds :
          /\ rd.id = r
          /\ LET targets ==
                   { a \in articles :
                       /\ ~ \E x \in article_round : x.article_id = a.id
                       /\ a.published_at # NoTime
                       /\ rd.start_date <= a.published_at
                       /\ a.published_at <= rd.end_date }
             IN  /\ targets # {}
                 /\ \A a \in targets : ~ Locked(a.id)
                 /\ article_round' = article_round \cup
                        { [article_id |-> a.id, round_id |-> r] : a \in targets }
    /\ UNCHANGED <<pipeline, ext, ctx, rx, weekly_snapshots, rolling_profiles,
                   weekly_verdicts, wk>>

\* variant: the profile loop placed before the snapshot loop
StagePlanProfilesFirst(n) ==
    [i \in 1..(2 * n + 1) |->
        IF i <= n THEN <<"profile", i>>
        ELSE IF i <= 2 * n THEN <<"snapshot", i - n>>
        ELSE <<"verdict", 0>>]

\* process_round lines 50-84: per entity the snapshot stage of every
\* dimension, then the profile stage of every dimension, then the verdict
StagePlan(n) ==
    [i \in 1..(2 * n + 1) |->
        IF i <= n THEN <<"snapshot", i>>
        ELSE IF i <= 2 * n THEN <<"profile", i - n>>
        ELSE <<"verdict", 0>>]

WeeklyPlan == StagePlan(Len(WeeklyDimensions))

\* the stage process_round is in, its dimension and its entity
StageOf(loc) == WeeklyPlan[loc.step][1]
DimOf(loc) == WeeklyDimensions[WeeklyPlan[loc.step][2]]
EntityOf(loc) == WeeklyPlayers[loc.ent].id

\* variant: a stage that wrote nothing ends the run
AdvanceStopsOnFailure(loc, written) ==
    LET done == loc.done \cup {<<StageOf(loc), WeeklyPlan[loc.step][2], written>>}
        rest == [loc EXCEPT !.pc = "select", !.arts = {}, !.fetched = {},
                           !.profiles = {}, !.oracle = "none"]
    IN  IF written /\ loc.step < Len(WeeklyPlan)
        THEN [rest EXCEPT !.step = @ + 1, !.done = done]
        ELSE IF written /\ loc.ent < Len(WeeklyPlayers)
        THEN [rest EXCEPT !.ent = @ + 1, !.step = 1, !.done = {}]
        ELSE [IdleWeekly EXCEPT !.last = "returned", !.done = done,
                               !.round_id = loc.round_id]

\* a stage call has returned (True or False) or raised into the except
\* clause: the next stage of the entity, the next entity, or the return
Advance(loc, written) ==
    LET done == loc.done \cup {<<StageOf(loc), WeeklyPlan[loc.step][2], written>>}
        rest == [loc EXCEPT !.pc = "select", !.arts = {}, !.fetched = {},
                           !.profiles = {}, !.oracle = "none"]
    IN  IF loc.step < Len(WeeklyPlan)
        THEN [rest EXCEPT !.step = @ + 1, !.done = done]
        ELSE IF loc.ent < Len(WeeklyPlayers)
        THEN [rest EXCEPT !.ent = @ + 1, !.step = 1, !.done = {}]
        ELSE [IdleWeekly EXCEPT !.last = "returned", !.done = done,
                               !.round_id = loc.round_id]

\* process_round(round_id) lines 29-48
WeeklyCall(r) ==
    /\ wk.pc = "idle"
    /\ wk' = IF WeeklyPlayers = << >>
             THEN [IdleWeekly EXCEPT !.last = "returned", !.round_id = r]
             ELSE [IdleWeekly EXCEPT !.pc = "select", !.round_id = r,
                                    !.ent = 1, !.step = 1]
    /\ UNCHANGED <<pipeline, ext, ctx, rx, article_round, weekly_snapshots,
                   rolling_profiles, weekly_verdicts>>

\* variant: the article query without the join on the dimension tag
TaggedArticlesAnyDimension(e, d, r) ==
    { a.id : a \in { x \in articles :
        /\ \E t \in article_tags :
              t.article_id = x.id /\ t.tag_type = "player" /\ t.entity_id = e
        /\ [article_id |-> x.id, round_id |-> r] \in article_round } }

\* _get_articles_for_entity_dimension: SELECT DISTINCT a.id ... FROM articles
\* a JOIN article_tags t_entity JOIN article_tags t_dim WHERE
\* t_entity.tag_type = 'player' AND t_entity.entity_id = %s AND
\* t_dim.dimension_id = %s AND a.round_id = %s
TaggedArticles(e, d, r) ==
    { a.id : a \in { x \in articles :
        /\ \E t \in article_tags :
              t.article_id = x.id /\ t.tag_type = "player" /\ t.entity_id = e
        /\ \E t \in article_tags :
              t.article_id = x.id /\ t.dimension_id = d
        /\ [article_id |-> x.id, round_id |-> r] \in article_round } }

\* r.round_number of the rounds row joined to a snapshot
RoundNumber(id) == (CHOOSE rd \in Rounds : rd.id = id).round_number

\* the rows of a set of snapshots with the n highest round numbers
RECURSIVE NewestFirst(_, _)
NewestFirst(S, n) ==
    IF S = {} \/ n = 0 THEN {}
    ELSE LET top == CHOOSE s \in S : \A o \in S :
                        RoundNumber(o.round_id) <= RoundNumber(s.round_id)
         IN  {top} \cup NewestFirst(S \ {top}, n - 1)

\* variant: the snapshot query without its LIMIT
RecentSnapshotsNoLimit(rows, e, d) ==
    { s \in rows : s.entity_id = e /\ s.dimension_id = d }

\* _update_rolling_profile lines 199-207: SELECT ... FROM weekly_snapshots ws
\* JOIN rounds r ON ws.round_id = r.id WHERE ws.entity_id = %s AND
\* ws.dimension_id = %s ORDER BY r.round_number DESC LIMIT 4
RecentSnapshots(rows, e, d) ==
    NewestFirst({ s \in rows :
                    /\ s.entity_id = e /\ s.dimension_id = d
                    /\ \E rd \in Rounds : rd.id = s.round_id },
                ProfileWindow)

\* variant: the snapshot query without the condition on the round
VerdictSnapshotsAnyRound(rows, e, r) ==
    { s \in rows : s.entity_id = e }

\* _generate_verdict lines 274-280: SELECT ... FROM weekly_snapshots ws JOIN
\* dimensions d ON ws.dimension_id = d.id WHERE ws.entity_id = %s AND
\* ws.round_id = %s
VerdictSnapshots(rows, e, r) ==
    { s \in rows : s.entity_id = e /\ s.round_id = r }

\* INSERT INTO weekly_snapshots ... ON CONFLICT (entity_id, dimension_id,
\* round_id) DO UPDATE (lines 164-189)
UpsertSnapshot(rows, e, d, r, res, arts, t) ==
    { s \in rows : ~ (s.entity_id = e /\ s.dimension_id = d /\ s.round_id = r) }
    \cup { [entity_id |-> e, dimension_id |-> d, round_id |-> r,
            sentiment |-> res.sentiment, signal_strength |-> res.signal_strength,
            confidence |-> res.confidence, article_count |-> Cardinality(arts),
            source_article_ids |-> arts, generated_at |-> t] }

\* INSERT INTO rolling_profiles ... ON CONFLICT (entity_id, dimension_id) DO
\* UPDATE (lines 246-266)
UpsertProfile(rows, e, d, r, res, snapshots, t) ==
    { x \in rows : ~ (x.entity_id = e /\ x.dimension_id = d) }
    \cup { [entity_id |-> e, dimension_id |-> d, trend |-> res.trend,
            weeks_covered |-> Cardinality(snapshots), last_round_id |-> r,
            updated_at |-> t] }

\* INSERT INTO weekly_verdicts ... ON CONFLICT (entity_id, round_id) DO
\* UPDATE (lines 339-365)
UpsertVerdict(rows, e, r, res, t) ==
    { v \in rows : ~ (v.entity_id = e /\ v.round_id = r) }
    \cup { [entity_id |-> e, round_id |-> r,
            captain_rating |-> res.captain_rating,
            risk_level |-> res.risk_level, trade_signal |-> res.trade_signal,
            verdict_features |-> res.verdict_features,
            confidence |-> res.confidence, generated_at |-> t] }

\* _generate_snapshot lines 120-125: the article query; no articles, return
\* False
SnapSelect ==
    /\ wk.pc = "select" /\ StageOf(wk) = "snapshot"
    /\ LET arts == TaggedArticles(EntityOf(wk), DimOf(wk), wk.round_id)
       IN  wk' = IF arts = {} THEN Advance(wk, FALSE)
                 ELSE [wk EXCEPT !.pc = "oracle", !.arts = arts]
    /\ UNCHANGED <<pipeline, ext, ctx, rx, article_round, weekly_snapshots,
                   rolling_profiles, weekly_verdicts>>

\* _generate_snapshot lines 156-191: the oracle answers; an error returns
\* False, a result is upserted
SnapOracle(res) ==
    /\ wk.pc = "oracle" /\ StageOf(wk) = "snapshot"
    /\ weekly_snapshots' =
          IF res.error THEN weekly_snapshots
          ELSE UpsertSnapshot(weekly_snapshots, EntityOf(wk), DimOf(wk),
                              wk.round_id, res, wk.arts, now)
    /\ wk' = [Advance(wk, ~ res.error) EXCEPT
                 !.oracle = IF res.error THEN "error" ELSE "ok"]
    /\ UNCHANGED <<pipeline, ext, ctx, rx, article_round, rolling_profiles,
                   weekly_verdicts>>

\* _update_rolling_profile lines 197-211
ProfSelect ==
    /\ wk.pc = "select" /\ StageOf(wk) = "profile"
    /\ LET snapshots == RecentSnapshots(weekly_snapshots, EntityOf(wk), DimOf(wk))
       IN  wk' = IF snapshots = {} THEN Advance(wk, FALSE)
                 ELSE [wk EXCEPT !.pc = "oracle", !.fetched = snapshots]
    /\ UNCHANGED <<pipeline, ext, ctx, rx, article_round, weekly_snapshots,
                   rolling_profiles, weekly_verdicts>>

\* _update_rolling_profile lines 238-268
ProfOracle(res) ==
    /\ wk.pc = "oracle" /\ StageOf(wk) = "profile"
    /\ rolling_profiles' =
          IF res.error THEN rolling_profiles
          ELSE UpsertProfile(rolling_profiles, EntityOf(wk), DimOf(wk),
                             wk.round_id, res, wk.fetched, now)
    /\ wk' = [Advance(wk, ~ res.error) EXCEPT
                 !.oracle = IF res.error THEN "error" ELSE "ok"]
    /\ UNCHANGED <<pipeline, ext, ctx, rx, article_round, weekly_snapshots,
                   weekly_verdicts>>

\* _generate_verdict lines 283-288: SELECT ... FROM rolling_profiles rp JOIN
\* dimensions d ON rp.dimension_id = d.id WHERE rp.entity_id = %s
VerdictProfiles(rows, e) == { x \in rows : x.entity_id = e }

\* _generate_verdict lines 272-292: both queries, then return False when the
\* round has no snapshot of the entity
VerdSelect ==
    /\ wk.pc = "select" /\ StageOf(wk) = "verdict"
    /\ LET snapshots == VerdictSnapshots(weekly_snapshots, EntityOf(wk),
                                         wk.round_id)
           profiles == VerdictProfiles(rolling_profiles, EntityOf(wk))
       IN  wk' = IF snapshots = {} THEN Advance(wk, FALSE)
                 ELSE [wk EXCEPT !.pc = "oracle", !.fetched = snapshots,
                                 !.profiles = profiles]
    /\ UNCHANGED <<pipeline, ext, ctx, rx, article_round, weekly_snapshots,
                   rolling_profiles, weekly_verdicts>>

\* _generate_verdict lines 331-367
VerdOracle(res) ==
    /\ wk.pc = "oracle" /\ StageOf(wk) = "verdict"
    /\ weekly_verdicts' =
          IF res.error THEN weekly_verdicts
          ELSE UpsertVerdict(weekly_verdicts, EntityOf(wk), wk.round_id, res, now)
    /\ wk' = [Advance(wk, ~ res.error) EXCEPT
                 !.oracle = IF res.error THEN "error" ELSE "ok"]
    /\ UNCHANGED <<pipeline, ext, ctx, rx, article_round, weekly_snapshots,
                   rolling_profiles>>

\* process_round lines 63-64, 76-77, 83-84: a stage call raises (a query or
\* the connection fails); the error is recorded and the loop goes on
WeeklyStageRaises ==
    /\ wk.pc \in {"select", "oracle"}
    /\ wk' = Advance(wk, FALSE)
    /\ UNCHANGED <<pipeline, ext, ctx, rx, article_round, weekly_snapshots,
                   rolling_profiles, weekly_verdicts>>

WeeklyNext ==
    \/ \E r \in CurrentRounds : WeeklyCall(r)
    \/ SnapSelect
    \/ \E res \in WeeklyOracleResults : SnapOracle(res)
    \/ ProfSelect
    \/ \E res \in WeeklyOracleResults : ProfOracle(res)
    \/ VerdSelect
    \/ \E res \in WeeklyOracleResults : VerdOracle(res)
    \/ WeeklyStageRaises

\* the aggregation tables as the processing of the past rounds left them
InitWeeklyRuns ==
    /\ InitPipeline /\ ctx = IdleContext /\ rx = IdleReindex
    /\ article_round = {}
    /\ weekly_snapshots \in {{}, PastSnapshots}
    /\ rolling_profiles = {} /\ weekly_verdicts = {}
    /\ wk = IdleWeekly
    /\ InitExt

NextWeekly ==
    \/ IngestSteps({"c1"})
    \/ \E r \in CurrentRounds : AssignArticles(r)
    \/ WeeklyNext

SpecWeekly == InitWeeklyRuns /\ [][NextWeekly]_vars

(* ------------------------ scheduled triage runs ----------------------- *)
\* two stored articles waiting for triage, the second scraped with or after
\* the first; the body "report" names no known entity
InitTriageRuns ==
    /\ now = 1
    /\ articles \in
          { { NewArticle(1, "u1", <<"news">>, b1, 1, 0),
              NewArticle(2, "u2", <<"news">>, b2, 2, t2) } :
              b1 \in Bodies \cup {ScenarioBody},
              b2 \in Bodies \cup {ScenarioBody}, t2 \in {0, 1} }
    /\ article_tags = {} /\ article_entities = {} /\ extraction_events = {}
    /\ nextArticleId = 3 /\ nextMentionId = 1
    /\ ingests = MaxIngests
    /\ ing = [p \in Clients |-> IdleIngest]
    /\ tri = IdleTriage
    /\ ana = [w \in Workers |-> IdleAnalysis]
    /\ ctx = IdleContext /\ rx = IdleReindex
    /\ InitWeekly
    /\ InitExt

\* process_daemon.py lines 31-39 and 73: run_triage starts a batch every
\* five minutes and survives a raising batch
TriageRun == \E n \in BatchSizes : TriageSelect(n)

\* the loop of a running batch goes on: the head of its list is triaged or
\* its triage raises
TriageStep == TriageArticle \/ TriageArticleRaises

\* the scheduled runs with nothing else going on: the schedule keeps
\* starting batches, and a started batch keeps running
SpecTriageFair ==
    /\ InitTriageRuns /\ [][TriageNext]_vars
    /\ WF_vars(TriageRun) /\ WF_vars(TriageStep)

(* ----------------------- scheduled analysis runs ---------------------- *)
\* the mention rows the triage of two stored articles with the bodies b1 and
\* b2 has left
TriagedMentions(b1, b2) ==
    LET first == UpsertMentions({}, 1, 1, FoundOf[<<"news">>, b1])
    IN  UpsertMentions(first, 1 + Cardinality(first), 2, FoundOf[<<"news">>, b2])

\* two stored and triaged articles, the second published after the first,
\* with the mention rows of their triage
InitAnalysisRuns ==
    /\ now = 1
    /\ \E b1, b2 \in Bodies \cup {ScenarioBody} :
          /\ articles =
                MarkTriaged(MarkTriaged(
                    { NewArticle(1, "u1", <<"news">>, b1, 1, 0),
                      NewArticle(2, "u2", <<"news">>, b2, 2, 0) }, 1, 1), 2, 1)
          /\ article_entities = TriagedMentions(b1, b2)
          /\ nextMentionId = 1 + Cardinality(TriagedMentions(b1, b2))
    /\ article_tags = {} /\ extraction_events = {}
    /\ nextArticleId = 3
    /\ ingests = MaxIngests
    /\ ing = [p \in Clients |-> IdleIngest]
    /\ tri = IdleTriage
    /\ ana = [w \in Workers |-> IdleAnalysis]
    /\ ctx = IdleContext /\ rx = IdleReindex
    /\ InitWeekly
    /\ InitExt

\* process_daemon.py lines 42-50 and 74: run_analysis starts a batch every
\* ten minutes and survives a raising batch
AnalysisRun == \E n \in BatchSizes : AnalysisSelect("w1", n)

\* ClaudeClient.query_json returns, with a result or an error dict
OracleReturns == \E r \in OracleResults : AnalyzeOracle("w1", r)

\* _analyze_entity goes on after the oracle's answer, and the with block of
\* the event insert ends
AnalysisStep ==
    \/ AnalyzeReject("w1") \/ AnalyzeAccept("w1")
    \/ AnalyzeCommit("w1") \/ AnalyzeCommitRaises("w1")

\* the scheduled analysis runs with nothing else going on: the schedule
\* keeps starting batches, the oracle answers every call, and a started
\* batch keeps running
SpecAnalysisFair ==
    /\ InitAnalysisRuns /\ [][AnalysisNext({"w1"})]_vars
    /\ WF_vars(AnalysisRun) /\ WF_vars(OracleReturns) /\ WF_vars(AnalysisStep)

(* ------------------------- end-to-end scenario ------------------------ *)
\* the round whose dates hold the scenario article's published_at
ScenarioRound == ProfileWindow + 1

\* the oracle answers every weekly stage
WeeklyOracleOk == { res \in WeeklyOracleResults : ~ res.error }

\* the steps of the scenario so far: ingest_article has returned the stored
\* article, the triage batch has handled it and returned, the analysis batch
\* has handled its mentions and returned
ScenarioIngested ==
    /\ ing["c1"].pc = "idle"
    /\ \E a \in articles : a.title = ScenarioTitle

ScenarioTriaged ==
    /\ ScenarioIngested
    /\ tri.pc = "idle"
    /\ \A a \in articles : a.triage_status = "completed"

ScenarioAnalysed ==
    /\ ScenarioTriaged
    /\ ana["w1"].pc = "idle"
    /\ PendingAnalysis(article_entities, articles) = {}

\* the batches are started in the scenario's order
ScenarioTriage(n) == ScenarioIngested /\ TriageSelect(n)
ScenarioAnalysis(n) == ScenarioTriaged /\ AnalysisSelect("w1", n)
ScenarioAggregation == ScenarioAnalysed /\ WeeklyCall(ScenarioRound)

\* the scenario article goes through the ingest endpoint; then the triage
\* job runs, then the analysis job, then process_round on the article's
\* round; the round's assign-articles endpoint may be called at any time
NextScenario ==
    \/ IngestCall("c1", ScenarioUrl, ScenarioTitle, ScenarioBody)
    \/ IngestDuplicate("c1")
    \/ IngestNotFound("c1")
    \/ IngestInsert("c1")
    \/ IngestIndexNew("c1")
    \/ \E n \in BatchSizes : ScenarioTriage(n)
    \/ TriageArticle
    \/ \E n \in BatchSizes : ScenarioAnalysis(n)
    \/ AnalyzeOracle("w1", ScenarioOracle)
    \/ AnalyzeAccept("w1")
    \/ AnalyzeCommit("w1")
    \/ AssignArticles(ScenarioRound)
    \/ ScenarioAggregation
    \/ SnapSelect
    \/ \E res \in WeeklyOracleOk : SnapOracle(res)
    \/ ProfSelect
    \/ \E res \in WeeklyOracleOk : ProfOracle(res)
    \/ VerdSelect
    \/ \E res \in WeeklyOracleOk : VerdOracle(res)

SpecScenario == Init /\ [][NextScenario]_vars

(* --------------------------- feature flattener ------------------------ *)
\* SENTIMENT_MAP and SIGNAL_MAP, in hundredths
\* variant: the signal scale in even steps
SignalMapEvenSteps ==
    [x \in {"strong", "moderate", "weak", "none", NULL} |->
        CASE x = "strong" -> 100
          [] x = "moderate" -> 50
          [] x = "weak" -> 25
          [] x = "none" -> 0
          [] x = NULL -> 0]

SENTIMENT_MAP ==
    [x \in {"positive", "neutral", "negative", "mixed", NULL} |->
        CASE x = "positive" -> 75
          [] x = "neutral" -> 50
          [] x = "negative" -> 25
          [] x = "mixed" -> 50
          [] x = NULL -> 50]

SIGNAL_MAP ==
    [x \in {"strong", "moderate", "weak", "none", NULL} |->
        CASE x = "strong" -> 100
          [] x = "moderate" -> 66
          [] x = "weak" -> 33
          [] x = "none" -> 0
          [] x = NULL -> 0]

DIMENSION_PREFIX_MAP ==
    [c \in {"injury_status", "fitness_health", "selection_security",
            "role_change", "form_trajectory", "captaincy_potential",
            "load_management", "coaching_sentiment"} |->
        CASE c = "injury_status" -> "injury"
          [] c = "fitness_health" -> "fitness"
          [] c = "selection_security" -> "selection"
          [] c = "role_change" -> "role"
          [] c = "form_trajectory" -> "form"
          [] c = "captaincy_potential" -> "captaincy"
          [] c = "load_management" -> "load"
          [] c = "coaching_sentiment" -> "coaching"]

DIMENSION_CODES == DOMAIN DIMENSION_PREFIX_MAP

\* dict.get(key, default)
Get(map, key, default) == IF key \in DOMAIN map THEN map[key] ELSE default

\* a quotient of two numbers, kept exact: <<numerator, denominator>> in
\* lowest terms
RECURSIVE Gcd(_, _)
Gcd(a, b) == IF b = 0 THEN a ELSE Gcd(b, a % b)
Ratio(n, d) == IF n = 0 THEN <<0, 1>> ELSE <<n \div Gcd(n, d), d \div Gcd(n, d)>>

\* d.code of the dimensions row joined to a snapshot
DimensionCode(id) == CHOOSE c \in DOMAIN ActiveDimensions : ActiveDimensions[c] = id

RECURSIVE SumOver(_, _)
SumOver(S, f) ==
    IF S = {} THEN 0
    ELSE LET x == CHOOSE y \in S : TRUE IN f[x] + SumOver(S \ {x}, f)

\* _generate_entity_features lines 72-148: the feature dict built from the
\* snapshots and the verdict of one entity and round
EntityFeatures(snapshots, verdict) ==
    LET known == { s \in snapshots :
                     DimensionCode(s.dimension_id) \in DOMAIN DIMENSION_PREFIX_MAP }
        prefix(s) == DIMENSION_PREFIX_MAP[DimensionCode(s.dimension_id)]
        of(p) == { s \in known : prefix(s) = p }
        prefixes == { DIMENSION_PREFIX_MAP[c] : c \in DIMENSION_CODES }
        recorded == { s \in known : s.sentiment # NULL }
        vf == verdict.verdict_features
    IN  [ dims |->
            [p \in prefixes |->
               IF of(p) = {}
               THEN [mentioned |-> FALSE, sentiment |-> NoConfidence,
                     signal |-> NoConfidence]
               ELSE LET s == CHOOSE x \in of(p) : TRUE
                    IN  [mentioned |-> s.article_count > 0,
                         sentiment |-> Get(SENTIMENT_MAP, s.sentiment, 50),
                         signal |-> Get(SIGNAL_MAP, s.signal_strength, 0)]],
          captain_rating |-> verdict.captain_rating,
          risk_level |-> verdict.risk_level,
          trade_signal |-> verdict.trade_signal,
          injury_risk_score |-> Get(vf, "injury_risk", 50),
          form_score |-> Get(vf, "form_score", 50),
          selection_certainty |-> Get(vf, "selection_certainty", 50),
          upside_potential |-> Get(vf, "upside_potential", 50),
          floor_safety |-> Get(vf, "floor_safety", 50),
          total_article_count |->
              SumOver(known, [s \in known |-> s.article_count]),
          overall_sentiment |->
              IF recorded # {}
              THEN Ratio(SumOver(recorded,
                           [s \in recorded |-> Get(SENTIMENT_MAP, s.sentiment, 50)]),
                         Cardinality(recorded))
              ELSE Ratio(50, 1),
          overall_signal_strength |->
              Ratio(SumOver(known,
                      [s \in known |-> Get(SIGNAL_MAP, s.signal_strength, 0)]),
                    Cardinality(DIMENSION_CODES)),
          confidence |->
              IF verdict.confidence # NoConfidence /\ verdict.confidence # 0
              THEN verdict.confidence ELSE 50 ]

\* _generate_entity_features lines 90-97: SELECT ... FROM weekly_snapshots ws
\* JOIN dimensions d ON ws.dimension_id = d.id WHERE ws.entity_id = %s AND
\* ws.round_id = %s
FeatureSnapshots(rows, e, r) ==
    { x \in rows : x.entity_id = e /\ x.round_id = r }

\* _generate_entity_features lines 100-106: the verdict row, as a set of 0
\* or 1 rows
FeatureVerdict(rows, e, r) ==
    { v \in rows : v.entity_id = e /\ v.round_id = r }

\* variant: the insert without its conflict target
UpsertFeaturesAppends(rows, e, r, f, t) ==
    rows \cup { [entity_id |-> e, round_id |-> r, features |-> f,
                 generated_at |-> t] }

\* _upsert_features: INSERT INTO ml_weekly_features ... ON CONFLICT
\* (entity_id, round_id) DO UPDATE ..., generated_at = NOW()
UpsertFeatures(rows, e, r, f, t) ==
    { x \in rows : ~ (x.entity_id = e /\ x.round_id = r) }
    \cup { [entity_id |-> e, round_id |-> r, features |-> f,
            generated_at |-> t] }

\* generate_for_round lines 43-52: the entities with a verdict of the round
FeaturesCall(r) ==
    /\ fg.pc = "idle"
    /\ fg' = [IdleFeatures EXCEPT
                 !.pc = "loop", !.round_id = r,
                 !.entity_ids = { v.entity_id :
                                    v \in { x \in weekly_verdicts : x.round_id = r } }]
    /\ UNCHANGED <<pipeline, ctx, rx, weekly, ml_weekly_features, rs, tagger, more>>

\* _generate_entity_features lines 70-148 for the next entity: both queries
\* in one transaction, return False without a verdict, else build the dict
FeaturesRead ==
    /\ fg.pc = "loop"
    /\ \E e \in fg.entity_ids :
          LET snapshots == FeatureSnapshots(weekly_snapshots, e, fg.round_id)
              verdict == FeatureVerdict(weekly_verdicts, e, fg.round_id)
          IN  fg' = IF verdict = {}
                    THEN [fg EXCEPT !.entity_ids = @ \ {e}]
                    ELSE [fg EXCEPT
                            !.pc = "write", !.ent = e,
                            !.row = { EntityFeatures(snapshots,
                                         CHOOSE v \in verdict : TRUE) }]
    /\ UNCHANGED <<pipeline, ctx, rx, weekly, ml_weekly_features, rs, tagger, more>>

\* _generate_entity_features lines 150-152: the upsert in its own
\* transaction
FeaturesWrite ==
    /\ fg.pc = "write"
    /\ ml_weekly_features' =
          UpsertFeatures(ml_weekly_features, fg.ent, fg.round_id,
                         CHOOSE f \in fg.row : TRUE, now)
    /\ fg' = [fg EXCEPT !.pc = "loop", !.entity_ids = @ \ {fg.ent},
                        !.ent = NULL, !.row = {}]
    /\ UNCHANGED <<pipeline, ctx, rx, weekly, rs, tagger, more>>

\* generate_for_round lines 61-68: the view is refreshed and the call
\* returns
FeaturesReturn ==
    /\ fg.pc = "loop" /\ fg.entity_ids = {}
    /\ fg' = [IdleFeatures EXCEPT !.last = "returned", !.round_id = fg.round_id]
    /\ UNCHANGED <<pipeline, ctx, rx, weekly, ml_weekly_features, rs, tagger, more>>

FeaturesNext ==
    \/ \E r \in CurrentRounds : FeaturesCall(r)
    \/ FeaturesRead
    \/ FeaturesWrite
    \/ FeaturesReturn

\* aggregation runs and feature-generation runs over the articles being
\* ingested, in any interleaving
NextFeatures ==
    \/ IngestSteps({"c1"})
    \/ \E r \in CurrentRounds : AssignArticles(r)
    \/ WeeklyNext
    \/ FeaturesNext

SpecFeatures == Init /\ [][NextFeatures]_vars

\* the classes an oracle answer can leave in a snapshot row: the four of
\* the prompt, or null
SentimentClasses == {"positive", "neutral", "negative", "mixed", NULL}
SignalClasses == {"strong", "moderate", "weak", "none", NULL}

\* the round the flattener is checked on
FlattenRound == ProfileWindow + 1

\* the snapshot tables of one entity and round over the first
\* MaxFeatureDims dimensions: each dimension without a row or with a row of
\* any sentiment and signal class
FlattenSnapshotTables ==
    LET choices == (BOOLEAN \X SentimentClasses) \X SignalClasses
        pick == [1..MaxFeatureDims -> choices]
    IN  { { [entity_id |-> "e1", dimension_id |-> WeeklyDimensions[i],
             round_id |-> FlattenRound, sentiment |-> f[i][1][2],
             signal_strength |-> f[i][2], confidence |-> 80,
             article_count |-> i, source_article_ids |-> 1..i,
             generated_at |-> 0] :
            i \in { j \in 1..MaxFeatureDims : f[j][1][1] } } : f \in pick }

\* the verdict objects the flattener is checked on: the oracle's answers,
\* and one whose numbers are all at the bottom of their scales (the prompt of
\* lines 314-328 allows captain_rating 0-100 and 0.0 to 1.0 elsewhere)
FlattenVerdictResults ==
    { x \in WeeklyOracleResults : ~ x.error }
    \cup { [error |-> FALSE, sentiment |-> "negative",
            signal_strength |-> "strong", trend |-> "declining",
            captain_rating |-> 0, risk_level |-> "low",
            trade_signal |-> "hold",
            verdict_features |->
                [k \in {"injury_risk", "form_score", "selection_certainty",
                        "upside_potential", "floor_safety"} |-> 0],
            confidence |-> 0] }

\* the aggregation tables after a round was processed
InitFlatten ==
    /\ InitPipeline /\ ctx = IdleContext /\ rx = IdleReindex
    /\ article_round = {}
    /\ weekly_snapshots \in FlattenSnapshotTables
    /\ rolling_profiles = {}
    /\ weekly_verdicts \in
          { UpsertVerdict({}, "e1", FlattenRound, res, 0) :
              res \in FlattenVerdictResults }
    /\ wk = IdleWeekly
    /\ InitExt

\* feature-generation runs, one after the other, as time passes
NextFlatten == FeaturesNext \/ \E t \in TimePoints : Tick(t)

SpecFlatten == InitFlatten /\ [][NextFlatten]_vars

(* ---------------------------- entity resolver ------------------------- *)
\* names are spelled out character by character here
NameChars == {"a", "b", "A", " "}

\* str.lower()
LowerChar(c) == CASE c = "A" -> "a" [] c = "B" -> "b" [] OTHER -> c
LowerName(n) == [i \in 1..Len(n) |-> LowerChar(n[i])]

\* str.strip()
RECURSIVE Strip(_)
Strip(n) ==
    IF n = << >> THEN << >>
    ELSE IF Head(n) = " " THEN Strip(Tail(n))
    ELSE IF n[Len(n)] = " " THEN Strip(SubSeq(n, 1, Len(n) - 1))
    ELSE n

\* LOWER(column) LIKE LOWER('%query%')
Like(column, query) ==
    LET c == LowerName(column)
        q == LowerName(query)
    IN  \E i \in 0..Len(c) :
            i + Len(q) <= Len(c) /\ SubSeq(c, i + 1, i + Len(q)) = q

\* the rows of entities and of entity_aliases the resolver works on
ResolverEntities ==
    { [id |-> "e1", canonical_name |-> <<"A", "b">>, entity_type |-> "player",
       domain |-> "afl"],
      [id |-> "e2", canonical_name |-> <<"B", "b", "b">>,
       entity_type |-> "player", domain |-> "afl"] }

ResolverAliases == { [entity_id |-> "e2", alias |-> <<"A", "a", "b">>] }

\* search_entities lines 75-97: the rows of the UNION, before the LIMIT
SearchRows(query, domain) ==
    { [id |-> e.id, canonical_name |-> e.canonical_name,
       entity_type |-> e.entity_type, match_type |-> "canonical"] :
        e \in { x \in ResolverEntities :
                  Like(x.canonical_name, query) /\ x.domain = domain } }
    \cup
    { [id |-> e.id, canonical_name |-> e.canonical_name,
       entity_type |-> e.entity_type, match_type |-> "alias"] :
        e \in { x \in ResolverEntities :
                  /\ x.domain = domain
                  /\ \E a \in ResolverAliases :
                        a.entity_id = x.id /\ Like(a.alias, query) } }

\* search_entities lines 99-102: LIMIT without ORDER BY: any limit rows of
\* the UNION in any order
SearchEntities(query, domain, limit) ==
    LET rows == SearchRows(query, domain)
        k == IF Cardinality(rows) < limit THEN Cardinality(rows) ELSE limit
    IN  { q \in [1..k -> rows] : \A i, j \in 1..k : q[i] = q[j] => i = j }

\* the longest common subsequence of two names
RECURSIVE Lcs(_, _)
Lcs(a, b) ==
    IF a = << >> \/ b = << >> THEN 0
    ELSE IF Head(a) = Head(b) THEN 1 + Lcs(Tail(a), Tail(b))
    ELSE LET x == Lcs(Tail(a), b)
             y == Lcs(a, Tail(b))
         IN  IF x >= y THEN x ELSE y

\* Levenshtein.ratio(a, b) = 2 * lcs / (len(a) + len(b)), as <<numerator,
\* denominator>>; two empty strings have ratio 1
LevRatio(a, b) ==
    IF Len(a) + Len(b) = 0 THEN <<1, 1>> ELSE <<2 * Lcs(a, b), Len(a) + Len(b)>>

\* x > y and x >= hundredths for ratios
RatioGreater(x, y) == x[1] * y[2] > y[1] * x[2]
RatioAtLeast(x, h) == x[1] * 100 >= h * x[2]

\* resolve_entity lines 25-48 over the result list: <<stage, rows returned>>
ResolveStages(name, results) ==
    LET idx == 1..Len(results)
        exact == { i \in idx :
                     LowerName(results[i].canonical_name) = LowerName(name) }
        alias == { i \in idx : results[i].match_type = "alias" }
        score(i) == LevRatio(LowerName(name), LowerName(results[i].canonical_name))
        \* best_match after the loop: the first row whose score is at least
        \* the threshold and greater than every earlier score that was
        best == { i \in idx :
                    /\ RatioAtLeast(score(i), FuzzyThreshold)
                    /\ RatioGreater(score(i), <<0, 1>>)
                    /\ \A j \in idx :
                          RatioAtLeast(score(j), FuzzyThreshold) =>
                            /\ ~ RatioGreater(score(j), score(i))
                            /\ (j < i => RatioGreater(score(i), score(j))) }
    IN  IF results = << >> THEN <<"none", {}>>
        ELSE IF exact # {} THEN <<"exact", {results[Min(exact)]}>>
        ELSE IF alias # {} THEN <<"alias", {results[Min(alias)]}>>
        ELSE <<"fuzzy", { results[i] : i \in best }>>

\* a caller hands a name to resolve_entity
ResolveCall(name) ==
    /\ rs.pc = "idle"
    /\ rs' = [IdleResolve EXCEPT !.pc = "called", !.name = name]
    /\ UNCHANGED <<pipeline, ctx, rx, weekly, features, tagger, more>>

\* resolve_entity(name, 'afl') lines 16-48
ResolveEntity ==
    /\ rs.pc = "called"
    /\ IF rs.name = << >>
       THEN rs' = [rs EXCEPT !.pc = "done"]
       ELSE \E results \in SearchEntities(Strip(rs.name), "afl", SearchLimit) :
              LET out == ResolveStages(rs.name, results)
              IN  rs' = [rs EXCEPT !.pc = "done", !.queried = TRUE,
                                   !.stage = out[1], !.result = out[2]]
    /\ UNCHANGED <<pipeline, ctx, rx, weekly, features, tagger, more>>

\* the caller takes the result
ResolveReturn ==
    /\ rs.pc = "done"
    /\ rs' = IdleResolve
    /\ UNCHANGED <<pipeline, ctx, rx, weekly, features, tagger, more>>

\* names of up to MaxNameLen characters
ResolveInputs == UNION { [1..n -> NameChars] : n \in 0..MaxNameLen }

NextResolve ==
    \/ \E name \in ResolveInputs : ResolveCall(name)
    \/ ResolveEntity
    \/ ResolveReturn

SpecResolve == Init /\ [][NextResolve]_vars

(* ---------------------------- tagger caches --------------------------- *)
\* codes of the rows of table dimensions with is_active = TRUE, in listing
\* order
DimensionListing ==
    <<"injury_status", "fitness_health", "selection_security", "role_change",
      "form_trajectory">>

\* the entity and the alias a create request registers
NewEntity ==
    [id |-> "e3", canonical_name |-> "Brown", entity_type |-> "player",
     domain |-> "afl"]

NewAlias ==
    [id |-> "e3", alias |-> "Browny", canonical_name |-> "Brown",
     entity_type |-> "player"]

\* the entity is in table entities
Registered(id) ==
    \E i \in 1..Len(catalog.entities) : catalog.entities[i].id = id

\* the cached list and the cached map, read through self
CachedPatterns == CHOOSE l \in indexer.patterns : TRUE
CachedDimensions == CHOOSE m \in indexer.dimension_ids : TRUE

\* a request thread enters index_article
TagCall(t) ==
    /\ tc[t].pc = "idle"
    /\ tc' = [tc EXCEPT ![t] =
                  [IdleTag EXCEPT !.pc = "patterns",
                                  !.registered = Registered(NewEntity.id)]]
    /\ UNCHANGED <<pipeline, ctx, rx, weekly, features, rs, more, catalog, indexer>>

\* index_article line 122: if self._patterns is None
TagCheckPatterns(t) ==
    /\ tc[t].pc = "patterns"
    /\ tc' = [tc EXCEPT ![t].pc = IF indexer.patterns = {} THEN "reset"
                                  ELSE "dimensions"]
    /\ UNCHANGED <<pipeline, ctx, rx, weekly, features, rs, more, catalog, indexer>>

\* _load_patterns line 204: self._patterns = []
LoadPatternsReset(t) ==
    /\ tc[t].pc = "reset"
    /\ indexer' = [indexer EXCEPT !.patterns = {<< >>}]
    /\ tc' = [tc EXCEPT ![t].pc = "query"]
    /\ UNCHANGED <<pipeline, ctx, rx, weekly, features, rs, more, catalog>>

\* _load_patterns lines 206-222: the two SELECTs of one transaction; the
\* patterns lines 226-241 will append are fixed by the rows read
LoadPatternsQuery(t) ==
    /\ tc[t].pc = "query"
    /\ tc' = [tc EXCEPT ![t].pc = "append",
                        ![t].pending =
                            LoadPatterns(catalog.entities, catalog.aliases)]
    /\ UNCHANGED <<pipeline, ctx, rx, weekly, features, rs, more, catalog, indexer>>

\* _load_patterns lines 230 and 240: self._patterns.append(...), one pattern
\* per step, onto the list self._patterns then refers to
LoadPatternsAppend(t) ==
    /\ tc[t].pc = "append"
    /\ tc[t].pending # << >>
    /\ indexer' = [indexer EXCEPT
                      !.patterns = {Append(CachedPatterns, Head(tc[t].pending))}]
    /\ tc' = [tc EXCEPT ![t].pending = Tail(tc[t].pending)]
    /\ UNCHANGED <<pipeline, ctx, rx, weekly, features, rs, more, catalog>>

\* _load_patterns returns; index_article line 124: if self._dimension_ids is
\* None
LoadPatternsReturn(t) ==
    /\ tc[t].pc = "append"
    /\ tc[t].pending = << >>
    /\ tc' = [tc EXCEPT ![t].pc = "dimensions"]
    /\ UNCHANGED <<pipeline, ctx, rx, weekly, features, rs, more, catalog, indexer>>

TagCheckDimensions(t) ==
    /\ tc[t].pc = "dimensions"
    /\ tc' = [tc EXCEPT ![t].pc = IF indexer.dimension_ids = {} THEN "dreset"
                                  ELSE "match"]
    /\ UNCHANGED <<pipeline, ctx, rx, weekly, features, rs, more, catalog, indexer>>

\* _load_dimensions lines 104-108: self._dimension_ids = {} and the SELECT
LoadDimensionsReset(t) ==
    /\ tc[t].pc = "dreset"
    /\ indexer' = [indexer EXCEPT !.dimension_ids = {{}}]
    /\ tc' = [tc EXCEPT ![t].pc = "dfill", ![t].pending = DimensionListing]
    /\ UNCHANGED <<pipeline, ctx, rx, weekly, features, rs, more, catalog>>

\* _load_dimensions lines 109-110: self._dimension_ids[row["code"]] =
\* row["id"], one row per step
LoadDimensionsFill(t) ==
    /\ tc[t].pc = "dfill"
    /\ tc[t].pending # << >>
    /\ indexer' = [indexer EXCEPT
                      !.dimension_ids =
                          {CachedDimensions \cup {Head(tc[t].pending)}}]
    /\ tc' = [tc EXCEPT ![t].pending = Tail(tc[t].pending)]
    /\ UNCHANGED <<pipeline, ctx, rx, weekly, features, rs, more, catalog>>

LoadDimensionsReturn(t) ==
    /\ tc[t].pc = "dfill"
    /\ tc[t].pending = << >>
    /\ tc' = [tc EXCEPT ![t].pc = "match"]
    /\ UNCHANGED <<pipeline, ctx, rx, weekly, features, rs, more, catalog, indexer>>

\* index_article lines 139-181: the entity loop over self._patterns and the
\* keyword loop's self._dimension_ids.get
TagMatch(t) ==
    /\ tc[t].pc = "match"
    /\ tc' = [tc EXCEPT ![t].pc = "done", ![t].used = indexer.patterns,
                        ![t].dims = CachedDimensions]
    /\ UNCHANGED <<pipeline, ctx, rx, weekly, features, rs, more, catalog, indexer>>

\* index_article returns
TagReturn(t) ==
    /\ tc[t].pc = "done"
    /\ tc' = [tc EXCEPT ![t] = IdleTag]
    /\ UNCHANGED <<pipeline, ctx, rx, weekly, features, rs, more, catalog, indexer>>

\* POST /entities (api/entities.py create): create_entity, then
\* add_entity_alias for each alias of the request
CreateEntity(with_alias) ==
    /\ ~ Registered(NewEntity.id)
    /\ catalog' = [entities |-> Append(catalog.entities, NewEntity),
                   aliases |-> IF with_alias
                               THEN Append(catalog.aliases, NewAlias)
                               ELSE catalog.aliases]
    /\ UNCHANGED <<pipeline, ctx, rx, weekly, features, rs, more, indexer, tc>>

TagThread(t) ==
    \/ TagCall(t)
    \/ TagCheckPatterns(t)
    \/ LoadPatternsReset(t)
    \/ LoadPatternsQuery(t)
    \/ LoadPatternsAppend(t)
    \/ LoadPatternsReturn(t)
    \/ TagCheckDimensions(t)
    \/ LoadDimensionsReset(t)
    \/ LoadDimensionsFill(t)
    \/ LoadDimensionsReturn(t)
    \/ TagMatch(t)
    \/ TagReturn(t)

NextCache ==
    \/ \E t \in Clients : TagThread(t)
    \/ \E with_alias \in BOOLEAN : CreateEntity(with_alias)

SpecCache == Init /\ [][NextCache]_vars

\* _load_patterns lines 206-222 when a SELECT raises: get_cursor rolls back
\* and re-raises (database.py lines 40-42), the exception leaves
\* _load_patterns and index_article, and self._patterns stays the list of
\* line 204
LoadPatternsQueryFails(t) ==
    /\ tc[t].pc = "query"
    /\ tc' = [tc EXCEPT ![t] = IdleTag]
    /\ UNCHANGED <<pipeline, ctx, rx, weekly, features, rs, more, catalog, indexer>>

\* the tag calls of one thread, one after the other, with a catalog query
\* that can fail, while entities are registered
NextCacheFaults ==
    \/ TagThread("c1")
    \/ LoadPatternsQueryFails("c1")
    \/ \E with_alias \in BOOLEAN : CreateEntity(with_alias)

SpecCacheFaults == Init /\ [][NextCacheFaults]_vars

(* --------------------------- mentions of aliases ---------------------- *)
\* rows of entity_aliases joined to entities when Smith has the alias Smithy
SmithAliases ==
    << [id |-> "e1", alias |-> "Smithy", canonical_name |-> "Smith",
        entity_type |-> "player", domain |-> "afl"] >>

MentionWords == {"Smith", "Smithy", "Jones", "hamstring"}
MentionTexts == UNION { [1..n -> MentionWords] : n \in 0..MaxTextLen }

\* _triage_article lines 107-144 on article 1 with this body, the pattern
\* cache loaded from a catalog with the alias: the rows of article_entities
TriageMentions ==
    /\ mn.pc = "idle"
    /\ \E body \in MentionTexts :
          mn' = [pc |-> "stored", body |-> body,
                 rows |-> UpsertMentions({}, 1, 1,
                            EntitiesFoundWith(
                                PlayerPatternsOf(Entities, SmithAliases),
                                <<"news">>, body))]
    /\ UNCHANGED <<pipeline, ctx, rx, weekly, features, rs, tagger>>

\* the next article
TriageMentionsReturn ==
    /\ mn.pc = "stored"
    /\ mn' = IdleMentions
    /\ UNCHANGED <<pipeline, ctx, rx, weekly, features, rs, tagger>>

NextMentions == TriageMentions \/ TriageMentionsReturn

SpecMentions == Init /\ [][NextMentions]_vars

(* ------------------------ context classification --------------------- *)
\* _triage_article line 118: context = self._detect_context(text, name)
DetectCall ==
    /\ ctx.label = "none"
    /\ ctx' = [ctx EXCEPT !.label = DetectContext(ctx.text, "Smith")]
    /\ UNCHANGED <<pipeline, rx, weekly, ext>>

InitContext ==
    /\ InitPipeline
    /\ ctx \in [text : ContextTexts, label : {"none"}]
    /\ rx = IdleReindex
    /\ InitWeekly
    /\ InitExt

NextContext == DetectCall

\* _detect_context over every text of the vocabulary
SpecContext == InitContext /\ [][NextContext]_vars

(* ------------------------------ claims -------------------------------- *)
\* the rows a dedup SELECT for p's url can return
LiveFor(p) == LiveRows(articles, Sha256(ing[p].url), now)

\* C1: an ingest whose URL has a live record with the same body fingerprint
\* returns the duplicate signal (None) and changes no stored row: the
\* article rows (body, both statuses, indexed, scraped and expiry
\* timestamps) and the tag rows stay exactly as they were.
C1_DuplicateIsNoOp ==
    [][\A p \in Clients :
          ( /\ ing[p].pc = "select" /\ ing'[p] # ing[p]
            /\ LiveFor(p) # {}
            /\ \A a \in LiveFor(p) : a.content_hash = Sha256(ing[p].body) )
          => ( /\ ing'[p].pc = "idle" /\ ing'[p].last = "duplicate"
               /\ ing'[p].result = {}
               /\ db' = db
               /\ Cardinality(LiveRows(articles', Sha256(ing[p].url), now')) = 1 )]_vars

\* a second ingest of a stored URL has signalled duplicate, one row stored
C1_Witness ==
    \E p \in Clients :
        /\ ing[p].last = "duplicate"
        /\ Cardinality({ a \in articles : a.url = "u1" }) = 1
        /\ \A a \in articles : a.indexed_at # NoTime
        /\ ingests = 2

\* C2: at most one live (non-expired) article row exists per URL
\* fingerprint, in every reachable state, also under overlapping ingests.
C2_OneLiveRowPerUrl ==
    \A a, b \in articles :
        (a.url_hash = b.url_hash /\ a.expires_at > now /\ b.expires_at > now)
            => a = b

TagView(tags) ==
    { [tag_type |-> t.tag_type, tag_value |-> t.tag_value,
       match_count |-> t.match_count, is_headline |-> t.is_headline] : t \in tags }

\* C4: when ingest returns after updating a URL whose body changed, the
\* article's stored tags are exactly the tags the tagger derives from the
\* title and the new body.
C4_FreshTagsAfterUpdate ==
    [][\A p \in Clients :
          (ing[p].pc = "index_upd" /\ ing'[p].last = "updated") =>
              \A r \in ing[p].row :
                  TagView({ t \in article_tags' : t.article_id = r.id })
                      = TagView(ComputeTags(ing[p].title, ing[p].body))]_vars

\* the oracle's answer passes the gate: parsed, confidence at least 0.30
PassesGate(r) ==
    ~ r.error /\ r.confidence # NoConfidence /\ r.confidence >= ConfidenceGate

CompletedAfter(id) ==
    \A m \in article_entities' : m.id = id => m.analysis_completed

C6_EventsWriteOnce ==
    /\ [](\A e1, e2 \in extraction_events :
              e1.article_hash = e2.article_hash => e1 = e2)
    /\ [][/\ extraction_events \subseteq extraction_events'
          /\ \A w \in Workers :
                (ana'[w].pc = "call" /\ ana[w].pc \in {"idle", "raised"}) =>
                    \A i \in 1..Len(ana'[w].pending) :
                        \E m \in article_entities :
                            /\ m.id = ana'[w].pending[i].id
                            /\ m.needs_deep_analysis
                            /\ ~ m.analysis_completed
          /\ \A w \in Workers :
                ( /\ ana[w].pc = "commit_event" /\ ana'[w] # ana[w]
                  /\ \E e \in extraction_events :
                        e.article_hash = EventHash(Head(ana[w].pending)) )
                => extraction_events' = extraction_events]_vars

\* a worker's INSERT met a stored event of the same fingerprint
C6_Witness ==
    \E w \in Workers :
        /\ ana[w].pc = "commit_event"
        /\ ana[w].tx_event = {}
        /\ \E e \in extraction_events :
              e.article_hash = EventHash(Head(ana[w].pending))

\* C7: no state has a mention committed as analysis-completed under an
\* accepted oracle result while no extraction event for its fingerprint
\* is stored.
C7_EventBeforeCompletion ==
    \A w \in Workers : \A r \in ana[w].result :
        ( /\ ana[w].pc \in {"commit_event", "raised"}
          /\ PassesGate(r)
          /\ \E m \in article_entities :
                m.id = Head(ana[w].pending).id /\ m.analysis_completed )
        => \E e \in extraction_events :
               e.article_hash = EventHash(Head(ana[w].pending))

\* C8: an article's triage status goes from completed back to pending only
\* in the commit of an ingest of the same URL that took the content-change
\* path; a mention's analysis-completed flag never goes from true to false.
C8_NoRegression ==
    [][/\ \A a \in articles : \A a2 \in articles' :
             (a.id = a2.id /\ a.triage_status = "completed"
                 /\ a2.triage_status = "pending")
             => \E p \in Clients :
                    /\ ing[p].pc = "index_upd" /\ ing'[p].last = "updated"
                    /\ ing[p].url = a.url
                    /\ a2 \in ing[p].row
                    /\ a2.body = ing[p].body
       /\ \A m \in article_entities : \A m2 \in article_entities' :
             (m.id = m2.id /\ m.analysis_completed) => m2.analysis_completed
      ]_vars

\* a triaged article was reset by a content change, a completed mention kept
C8_Witness ==
    /\ \E a \in articles : a.triage_status = "pending" /\ a.triage_at # NoTime
    /\ \E m \in article_entities : m.analysis_completed

\* C9: when a batch call has ended, the only selected units it left
\* unprocessed are failing ones: a unit that raises does not keep the
\* units after it from being processed.
C9_BatchRunsToCompletion ==
    /\ tri.pc = "raised" => Tail(tri.batch) = << >>
    /\ \A w \in Workers : ana[w].pc = "raised" => Tail(ana[w].pending) = << >>

\* C10: every entity-mention row needs deep analysis iff its stored
\* context label is one of injury, trade, selection, return.
C10_NeedsIffContext ==
    \A m \in article_entities :
        m.needs_deep_analysis
            <=> m.mention_context \in {"injury", "trade", "selection", "return"}

\* the groups of the classification in their priority order
C11_Groups ==
    << <<"injury", {"injur", "hamstring", "calf", "shoulder", "knee",
                    "ruled out", "sidelined", "miss"}>>,
       <<"return", {"return", "back from", "recovered", "cleared to play",
                    "set to return"}>>,
       <<"trade", {"trade", "deal", "request", "move to", "join", "sign"}>>,
       <<"selection", {"select", "named", "omit", "drop", "debut", "axed",
                       "in for", "out for"}>>,
       <<"form", {"form", "scores", "points", "averaging", "performance",
                  "disposal"}>> >>

\* the words around the first mention of the player in the classified text
C11_Window ==
    ContextWindow(ctx.text, Min(SubstrMatches("Smith", ctx.text)))

\* the groups having a phrase in the window
C11_Present ==
    { g \in 1..Len(C11_Groups) : AnyIn(C11_Groups[g][2], ctx.text, C11_Window) }

\* C11: for every text with a mention, the context label is the first
\* group, in the order injury, return, trade, selection, form, that has a
\* phrase in the window around the first mention, and general if none has;
\* a window with an injury phrase and a selection phrase is labelled injury.
C11_FirstGroupWins ==
    (ctx.label # "none" /\ SubstrMatches("Smith", ctx.text) # {}) =>
        /\ C11_Present = {} => ctx.label = "general"
        /\ C11_Present # {} => ctx.label = C11_Groups[Min(C11_Present)][1]
        /\ {1, 4} \subseteq C11_Present => ctx.label = "injury"

\* a window holding an injury and a selection phrase has been classified
C11_Witness ==
    /\ ctx.label = "injury"
    /\ SubstrMatches("Smith", ctx.text) # {}
    /\ {1, 4} \subseteq C11_Present

\* C12: a tag call that repeats the previous tag call (same article, title
\* and body) leaves the tag rows exactly as they were, counts and headline
\* flags included; and there is one row per (article, tag kind, tag value).
C12_TagIdempotent ==
    [][/\ (rx'.calls = rx.calls + 1 /\ rx'.prev = rx.prev /\ rx.prev # {})
             => article_tags' = article_tags
       /\ \A t1, t2 \in article_tags' :
             ( /\ t1.article_id = t2.article_id
               /\ t1.tag_type = t2.tag_type
               /\ t1.tag_value = t2.tag_value ) => t1 = t2]_vars

\* an article with stored tags has been tagged twice in a row
C12_Witness ==
    /\ rx.retagged
    /\ \E c \in rx.prev : \E t \in article_tags : t.article_id = c.id

\* C13: when a tag call returns (from ingest of a new article, or called
\* directly), the article's indexed timestamp is set, whatever its text.
C13_StampedAfterTag ==
    [][/\ \A p \in Clients :
             (ing[p].pc = "index_new" /\ ing'[p].last = "created") =>
                 \A r \in ing[p].row : \A a \in articles' :
                     a.id = r.id => a.indexed_at # NoTime
       /\ (rx'.calls = rx.calls + 1) =>
             \A c \in rx'.prev : \A a \in articles' :
                 a.id = c.id => a.indexed_at # NoTime]_vars

\* C14: once called, reindex_all eventually returns.
C14_ReindexTerminates == (rx.pc = "select") ~> (rx.pc = "idle")

\* C15: when tagging raises during an ingest, for a new URL and for a
\* changed-content URL alike, the article row with the ingested body and
\* both statuses pending is stored.
C15_TagFailureKeepsIngest ==
    [][\A p \in Clients :
          (ing[p].pc \in {"index_new", "index_upd"}
              /\ ing'[p].last = "tag_failed") =>
              \E a \in articles' :
                  /\ a.url = ing[p].url
                  /\ a.body = ing[p].body
                  /\ a.content_hash = Sha256(ing[p].body)
                  /\ a.triage_status = "pending"
                  /\ a.analysis_status = "pending"]_vars

\* C16: when the insert of one tag row fails while an article's tags are
\* persisted, all other tag rows of the article are stored and the article
\* is stamped as indexed.
C16_OneTagFailureSkipped ==
    [][\A p \in Clients :
          (ing[p].pc = "index_new" /\ ing'[p].last = "tag_failed") =>
              \A r \in ing[p].row :
                  /\ \E f \in TagsOf[ing[p].title, ing[p].body] :
                        TagView(TagsOf[ing[p].title, ing[p].body] \ {f})
                            \subseteq TagView({ t \in article_tags' :
                                                  t.article_id = r.id })
                  /\ \A a \in articles' : a.id = r.id => a.indexed_at # NoTime
      ]_vars


\* the articles stored with a player tag of entity e, a tag bound to
\* dimension d, and round r
C17_Contributing(e, d, r) ==
    { a \in articles :
        /\ \E t \in article_tags :
              /\ t.article_id = a.id /\ t.tag_type = "player"
              /\ t.entity_id = e
        /\ \E t \in article_tags : t.article_id = a.id /\ t.dimension_id = d
        /\ \E x \in article_round : x.article_id = a.id /\ x.round_id = r }

\* C17: a weekly_snapshots row of (entity, dimension, round) is inserted or
\* overwritten only while an article tagged with the entity and with the
\* dimension is stored for the round, and then records exactly the ids the
\* stage selected; every row has article_count >= 1 equal to the number of
\* its source_article_ids; a snapshot stage that selects no article ends
\* there, with the table as it was.
C17_SnapshotNeedsArticles ==
    [][ /\ \A s \in weekly_snapshots' :
              /\ s.article_count >= 1
              /\ s.article_count = Cardinality(s.source_article_ids)
        /\ \A s \in weekly_snapshots' \ weekly_snapshots :
              /\ C17_Contributing(s.entity_id, s.dimension_id, s.round_id) # {}
              /\ s.source_article_ids = wk.arts
              /\ wk.arts \subseteq
                    { a.id : a \in C17_Contributing(s.entity_id, s.dimension_id,
                                                    s.round_id) }
        /\ ( /\ wk.pc = "select" /\ StageOf(wk) = "snapshot" /\ wk' # wk
             /\ C17_Contributing(EntityOf(wk), DimOf(wk), wk.round_id) = {} )
           => /\ wk'.pc # "oracle"
              /\ weekly_snapshots' = weekly_snapshots ]_vars

C17_Witness ==
    \E s \in weekly_snapshots :
        /\ s.round_id \in CurrentRounds /\ s.article_count = 2
        /\ wk.last = "returned"

\* C18: every rolling_profiles row of (entity, dimension) has a
\* weekly_snapshots row of the same (entity, dimension) beside it and a
\* weeks_covered between 1 and 4; a profile stage that finds no snapshot of
\* its (entity, dimension) ends there and leaves rolling_profiles as it was.
C18_ProfileNeedsSnapshots ==
    [][ /\ \A x \in rolling_profiles' :
              /\ \E s \in weekly_snapshots' :
                    /\ s.entity_id = x.entity_id
                    /\ s.dimension_id = x.dimension_id
              /\ 1 <= x.weeks_covered /\ x.weeks_covered <= 4
        /\ ( /\ wk.pc = "select" /\ StageOf(wk) = "profile" /\ wk' # wk
             /\ ~ \E s \in weekly_snapshots :
                     /\ s.entity_id = EntityOf(wk)
                     /\ s.dimension_id = DimOf(wk) )
           => /\ wk'.pc # "oracle"
              /\ rolling_profiles' = rolling_profiles ]_vars

C18_Witness ==
    \E x \in rolling_profiles :
        /\ x.weeks_covered = ProfileWindow
        /\ Cardinality({ s \in weekly_snapshots :
                            /\ s.entity_id = x.entity_id
                            /\ s.dimension_id = x.dimension_id }) > ProfileWindow

\* C19: every weekly_verdicts row of (entity, round) has a weekly_snapshots
\* row of the same entity and round beside it; a verdict stage that finds no
\* snapshot of its entity and round ends there: it does not go on to the
\* oracle and leaves weekly_verdicts as it was.
C19_VerdictNeedsSnapshot ==
    [][ /\ \A v \in weekly_verdicts' :
              \E s \in weekly_snapshots' :
                  s.entity_id = v.entity_id /\ s.round_id = v.round_id
        /\ ( /\ wk.pc = "select" /\ StageOf(wk) = "verdict" /\ wk' # wk
             /\ ~ \E s \in weekly_snapshots :
                     s.entity_id = EntityOf(wk) /\ s.round_id = wk.round_id )
           => /\ wk'.pc # "oracle"
              /\ weekly_verdicts' = weekly_verdicts ]_vars

C19_Witness ==
    /\ weekly_verdicts # {}
    /\ weekly_snapshots # {}
    /\ wk.last = "returned" /\ <<"verdict", 0, FALSE>> \in wk.done
    /\ ~ \E s \in weekly_snapshots : s.round_id = wk.round_id

\* the attempts of a stage recorded for dimension number i in this run
C20_Attempted(stage, i) == \E w \in BOOLEAN : <<stage, i, w>> \in wk.done

C21_OracleFailureSkipsUnit ==
    [][ /\ (wk.pc = "oracle" /\ wk' # wk /\ wk'.oracle = "error") =>
              /\ weekly_snapshots' = weekly_snapshots
              /\ rolling_profiles' = rolling_profiles
              /\ weekly_verdicts' = weekly_verdicts
              /\ \/ /\ wk.step < Len(WeeklyPlan) /\ wk'.pc = "select"
                    /\ wk'.ent = wk.ent /\ wk'.step = wk.step + 1
                 \/ /\ wk.step = Len(WeeklyPlan) /\ wk.ent < Len(WeeklyPlayers)
                    /\ wk'.pc = "select"
                    /\ wk'.ent = wk.ent + 1 /\ wk'.step = 1
                 \/ /\ wk.step = Len(WeeklyPlan) /\ wk.ent = Len(WeeklyPlayers)
                    /\ wk'.pc = "idle" /\ wk'.last = "returned"
        /\ (wk.pc # "idle" /\ wk'.pc = "idle") =>
              wk.step = Len(WeeklyPlan) /\ wk.ent = Len(WeeklyPlayers) ]_vars

C21_Witness ==
    /\ wk.pc = "select" /\ wk.oracle = "error"
    /\ wk.ent = 2 /\ wk.step = 1
    /\ \E s \in weekly_snapshots :
          s.entity_id = "e1" /\ s.round_id = wk.round_id
    /\ ~ \E v \in weekly_verdicts : v.round_id = wk.round_id

\* C22: whenever neither process_round nor generate_for_round is running,
\* every ml_weekly_features row of (entity, round) holds the features that
\* the stored snapshots and the stored verdict of that entity and round
\* project to.
C22_FeaturesMatchSources ==
    (wk.pc = "idle" /\ fg.pc = "idle") =>
      \A x \in ml_weekly_features :
        LET verdict == FeatureVerdict(weekly_verdicts, x.entity_id, x.round_id)
        IN  /\ verdict # {}
            /\ x.features =
                  EntityFeatures(
                    FeatureSnapshots(weekly_snapshots, x.entity_id, x.round_id),
                    CHOOSE v \in verdict : TRUE)

\* the fixed scales, in hundredths
C23_Sentiment(x) ==
    CASE x = "positive" -> 75 [] x = "neutral" -> 50 [] x = "negative" -> 25
      [] x = "mixed" -> 50 [] OTHER -> 50

C23_Signal(x) ==
    CASE x = "strong" -> 100 [] x = "moderate" -> 66 [] x = "weak" -> 33
      [] x = "none" -> 0 [] OTHER -> 0

\* C23: in every stored feature row, a dimension with a snapshot carries the
\* snapshot's sentiment and signal on the fixed scales and mentioned =
\* (article_count > 0), a dimension without one carries (false, unset,
\* unset); overall sentiment is the mean of the mapped sentiments of the
\* snapshots with a recorded sentiment, 0.5 when there is none; overall
\* signal is the sum of the mapped signals divided by 8.
C23_FixedScales ==
    \A x \in ml_weekly_features :
      LET snaps == { s \in weekly_snapshots :
                      s.entity_id = x.entity_id /\ s.round_id = x.round_id }
          pre(s) == DIMENSION_PREFIX_MAP[DimensionCode(s.dimension_id)]
          rec == { s \in snaps : s.sentiment # NULL }
          sent == SumOver(rec, [s \in rec |-> C23_Sentiment(s.sentiment)])
          sig == SumOver(snaps, [s \in snaps |-> C23_Signal(s.signal_strength)])
          f == x.features
      IN  /\ \A s \in snaps :
                /\ f.dims[pre(s)].sentiment = C23_Sentiment(s.sentiment)
                /\ f.dims[pre(s)].signal = C23_Signal(s.signal_strength)
                /\ f.dims[pre(s)].mentioned = (s.article_count > 0)
          /\ \A p \in DOMAIN f.dims :
                (~ \E s \in snaps : pre(s) = p) =>
                    /\ ~ f.dims[p].mentioned
                    /\ f.dims[p].sentiment = NoConfidence
                    /\ f.dims[p].signal = NoConfidence
          /\ Cardinality(DOMAIN f.dims) = 8
          /\ IF rec = {} THEN f.overall_sentiment = <<50, 1>>
             ELSE f.overall_sentiment[1] * Cardinality(rec)
                    = f.overall_sentiment[2] * sent
          /\ f.overall_signal_strength[1] * 8 = f.overall_signal_strength[2] * sig

C23_Witness ==
    \E x \in ml_weekly_features :
        /\ x.features.overall_sentiment = <<125, 2>>
        /\ x.features.overall_signal_strength = <<33, 4>>
        /\ \E s \in weekly_snapshots : s.signal_strength = NULL

C25_CanonicalEqual(name) ==
    { e.id : e \in { x \in ResolverEntities :
                       LowerName(x.canonical_name) = LowerName(name) } }

C25_AliasEqual(name) ==
    { a.entity_id : a \in { x \in ResolverAliases :
                               LowerName(x.alias) = LowerName(name) } }

\* C25: a finished resolve returns the entity whose canonical name equals the
\* input case-insensitively when there is one; otherwise it returns an entity
\* through the alias stage only if one of that entity's aliases equals the
\* input case-insensitively.
C25_StagesInOrder ==
    rs.pc = "done" =>
        /\ C25_CanonicalEqual(rs.name) # {} =>
              /\ rs.result # {}
              /\ \A r \in rs.result : r.id \in C25_CanonicalEqual(rs.name)
        /\ (C25_CanonicalEqual(rs.name) = {} /\ rs.stage = "alias") =>
              \A r \in rs.result : r.id \in C25_AliasEqual(rs.name)

\* the catalog entities whose canonical name is most similar to the name,
\* among those at the threshold or above
C26_BestFuzzy(name) ==
    LET score(e) == LevRatio(LowerName(name), LowerName(e.canonical_name))
        near == { e \in ResolverEntities :
                    e.domain = "afl" /\ RatioAtLeast(score(e), FuzzyThreshold) }
    IN  { e.id : e \in { x \in near :
                   \A y \in near : ~ RatioGreater(score(y), score(x)) } }

\* C26: a finished resolve of a name that equals no canonical name and no
\* alias returns a catalog entity of highest similarity ratio when that ratio
\* is at least 0.80, and not-found when no catalog entity reaches 0.80.
C26_FuzzyReturnsBest ==
    (/\ rs.pc = "done"
     /\ C25_CanonicalEqual(rs.name) = {}
     /\ C25_AliasEqual(rs.name) = {}) =>
        IF C26_BestFuzzy(rs.name) = {}
        THEN rs.result = {}
        ELSE /\ rs.result # {}
             /\ \A r \in rs.result : r.id \in C26_BestFuzzy(rs.name)

\* C27: a finished resolve of an empty or whitespace-only name returned
\* not-found and issued no query.
C27_BlankNotFound ==
    (rs.pc = "done" /\ Strip(rs.name) = << >>) =>
        rs.result = {} /\ ~ rs.queried

\* the entity ids a pattern list has a pattern for
C28_Covered(lists) ==
    { l[i][2] : <<l, i>> \in { <<m, j>> \in lists \X (1..6) : j <= Len(m) } }

\* C28: the pattern list and the dimension map a finished tag call matched
\* against were completely built: the list has a pattern for every entity
\* the catalog has held all along, the map has every active dimension.
C28_NoPartialCache ==
    \A t \in Clients :
        tc[t].pc = "done" =>
            /\ \A i \in 1..Len(Entities) :
                  Entities[i].id \in C28_Covered(tc[t].used)
            /\ \A c \in DOMAIN ActiveDimensions : c \in tc[t].dims

\* C29: a finished tag call that began after the new entity was registered
\* matched against a pattern list that has a pattern for the new entity.
C29_MutationInvalidates ==
    \A t \in Clients :
        (tc[t].pc = "done" /\ tc[t].registered) =>
            NewEntity.id \in C28_Covered(tc[t].used)

\* the stored scenario article, its tags, its mention and its events
C30_Article == { a \in articles : a.title = ScenarioTitle }

C30_Tagged(a) ==
    /\ \E t \in article_tags :
          /\ t.article_id = a.id /\ t.tag_type = "player"
          /\ t.entity_id = "e1" /\ t.is_headline
    /\ \E t \in article_tags :
          /\ t.article_id = a.id /\ t.tag_type = "keyword"
          /\ t.tag_value = "injury"
          /\ t.dimension_id = ActiveDimensions["injury_status"]
          /\ t.is_headline

C30_Mentions(a) ==
    { m \in article_entities : m.article_id = a.id /\ m.entity_id = "e1" }

C30_Events(a) == { e \in extraction_events : e.article_id = a.id }

C30_Snapshots ==
    { s \in weekly_snapshots :
        /\ s.entity_id = "e1"
        /\ s.dimension_id = ActiveDimensions["injury_status"]
        /\ s.round_id = ScenarioRound }

\* C30: once its ingest has returned the scenario article has the Smith tag
\* and the injury keyword tag on injury_status, both headline; once the
\* triage batch has returned Smith's mention has context injury and needs
\* analysis; once the analysis batch has returned there is exactly one
\* extraction event; and once the aggregation run of the article's round
\* that followed has returned there is exactly one snapshot for (Smith,
\* injury_status), with article_count 1.
C30_EndToEnd ==
    \A a \in C30_Article :
        /\ ScenarioIngested => C30_Tagged(a)
        /\ ScenarioTriaged =>
              /\ C30_Mentions(a) # {}
              /\ \A m \in C30_Mentions(a) :
                    m.mention_context = "injury" /\ m.needs_deep_analysis
        /\ ScenarioAnalysed => Cardinality(C30_Events(a)) = 1
        /\ (/\ wk.pc = "idle" /\ wk.last = "returned"
            /\ wk.round_id = ScenarioRound) =>
              /\ Cardinality(C30_Snapshots) = 1
              /\ \A s \in C30_Snapshots : s.article_count = 1

\* C31: after the triage of an article every entity has at most one mention
\* row, also when its canonical name and an alias both occur in the text.
C31_OneRowPerEntity ==
    mn.pc = "stored" =>
        \A x, y \in mn.rows : x.entity_id = y.entity_id => x = y

\* the Tagger's phrases that normalize to a keyword tag
C32_TaggerPhrases(g) == { k \in Keywords : KEYWORD_MAP[k] = g }

\* C32: for each of the groups injury, return, trade, selection and form, a
\* text window around the mention in which a Tagger phrase of the group
\* occurs is a window in which triage finds the group matched.
C32_SamePhraseGroups ==
    (ctx.label # "none" /\ SubstrMatches("Smith", ctx.text) # {}) =>
        LET w == ContextWindow(ctx.text, Min(SubstrMatches("Smith", ctx.text)))
        IN  \A g \in DOMAIN ContextPhrases :
                AnyIn(C32_TaggerPhrases(g), ctx.text, w) =>
                    AnyIn(ContextPhrases[g], ctx.text, w)

\* the sub-scores of the verdict features bag and the row fields they fill
C33_SubScores ==
    { <<"injury_risk", "injury_risk_score">>, <<"form_score", "form_score">>,
      <<"selection_certainty", "selection_certainty">>,
      <<"upside_potential", "upside_potential">>,
      <<"floor_safety", "floor_safety">> }

\* C33: every stored feature row carries the composite rating, risk level,
\* trade recommendation, confidence and each stored sub-score of the verdict
\* of its (entity, round) unchanged, for every value including 0.
C33_VerdictVerbatim ==
    \A x \in ml_weekly_features :
        \A v \in weekly_verdicts :
            (v.entity_id = x.entity_id /\ v.round_id = x.round_id) =>
                /\ x.features.captain_rating = v.captain_rating
                /\ x.features.risk_level = v.risk_level
                /\ x.features.trade_signal = v.trade_signal
                /\ x.features.confidence = v.confidence
                /\ \A p \in C33_SubScores :
                      p[1] \in DOMAIN v.verdict_features =>
                          x.features[p[2]] = v.verdict_features[p[1]]

\* C34: when a profile stage stores a rolling-profile row, the row's
\* last_round_id is the round with the highest round number among the
\* snapshots the stage fetched, in whatever order the rounds are processed.
C34_LastRoundIsNewestSnapshot ==
    [][ ( /\ wk.pc = "oracle" /\ StageOf(wk) = "profile"
          /\ wk' # wk /\ wk'.oracle = "ok" )
        => \A x \in rolling_profiles' :
              (x.entity_id = EntityOf(wk) /\ x.dimension_id = DimOf(wk)) =>
                  /\ \E s \in wk.fetched : s.round_id = x.last_round_id
                  /\ \A s \in wk.fetched :
                        RoundNumber(s.round_id) <= RoundNumber(x.last_round_id)
      ]_vars

\* the triage of the article has raised in the batch that just ended
C35_TriageFailed(id) ==
    tri.pc = "raised" /\ Head(tri.batch).id = id

\* C35: under the scheduled triage runs, with no ingestion, every stored
\* article whose own triage never raises is eventually triage-completed,
\* whatever happens to the triage of the other articles.
C35_HealthyArticlesGetTriaged ==
    \A id \in 1..2 :
        ([] ~ C35_TriageFailed(id)) =>
            <> (\E a \in articles : a.id = id /\ a.triage_status = "completed")

\* C36: whenever a step turns an article triage-completed, the body the
\* triage matched is the body the article has at that moment: a triage that
\* read the body before an ingest replaced it does not complete the article.
C36_CompletedOnCurrentBody ==
    [][ \A a \in articles' :
          ( /\ a.triage_status = "completed"
            /\ \E o \in articles : o.id = a.id /\ o.triage_status = "pending" )
          => /\ tri.pc = "loop"
             /\ Head(tri.batch).id = a.id
             /\ Head(tri.batch).body = a.body ]_vars

\* C37: no ingest call is ever stuck: the tagger's transaction, run from
\* inside the ingest of a changed article, never waits for the row lock that
\* the ingest's own uncommitted UPDATE holds.
C37_IngestNeverSelfBlocks ==
    \A p \in Clients : ing[p].pc # "blocked"

\* the mentions still flagged for deep analysis and not completed
C38_Waiting ==
    { m \in article_entities : m.needs_deep_analysis /\ ~ m.analysis_completed }

\* published_at of the article of a mention
C38_Published(article_id) ==
    (CHOOSE a \in articles : a.id = article_id).published_at

C39_NoEmptyPatternSet ==
    /\ \A t \in Clients :
          tc[t].pc = "done" => \E l \in tc[t].used : l # << >>
    /\ (\A t \in Clients : tc[t].pc = "idle") => indexer.patterns # {<< >>}

\* C40: across ingests, triage batches, analysis batches and cleanup, every
\* stored article's analysis_status is pending, the value the insert and the
\* content-change update write: no step completes it, also not the step
\* that sets the analysis_completed flag of the article's mentions.
C40_AnalysisStatusStaysPending ==
    \A a \in articles : a.analysis_status = "pending"

\* a triaged article whose flagged mention was analysed and has its event
C40_Witness ==
    \E a \in articles :
        /\ a.triage_status = "completed"
        /\ \E m \in article_entities :
              /\ m.article_id = a.id
              /\ m.needs_deep_analysis /\ m.analysis_completed
              /\ \E e \in extraction_events : e.article_entity_id = m.id
        /\ ana["w1"].pc = "idle"

=============================================================================
